---- MODULE Spec2Model ----
(***************************************************************************)
(* A model of go-llm-proxy: the two-tier cache store (Redis in front of    *)
(* Postgres), the chat-completion cache coordinator and the embedding      *)
(* cache coordinator of the proxy handler.                                 *)
(*                                                                         *)
(* Byte strings are modelled by what the code does with them:              *)
(*   - a text is a sequence of characters, so that concatenation is real;  *)
(*   - a JSON text is a document plus the way it is written down (its      *)
(*     insignificant whitespace), so that re-encoding is not the identity; *)
(*   - SHA-256 is an injective tagging of its input.                       *)
(***************************************************************************)
EXTENDS Integers, Sequences, FiniteSets, TLC

VARIABLES
    revision,   \* which revision of internal/storage, or of the route strategy, the build contains
    redis,      \* tier-1: key -> JSON-decoded value (absent keys are not in DOMAIN)
    pgLLM,      \* tier-2 table llm_cache: <<request_hash, model_name>> -> row
    pgEmb,      \* tier-2 table embedding_cache: <<input_hash, model_name>> -> row
    ret,        \* what the last Storage call did and returned
    upserted,   \* history: the request, model and response of the last successful UpsertLLM
    reqs,       \* the HTTP requests being served, by connection
    received,   \* how many HTTP requests the proxy has received
    embCache,   \* the handler's cacheStorage for embeddings: input text -> embedding
    ipLimiters, \* Handler.ipLimiters (sync.Map): client IP -> the limiter stored for it
    limiters,   \* the rate.Limiter objects created so far: id -> bucket
    now,        \* the wall clock, in ticks
    passes,     \* history: client IP -> tick -> requests that passed the rate limit
    balancers   \* LoadBalancerManager.balancers: model -> RoundRobinLoadBalancer

\* What the rate-limit gate and the load balancers keep.
gateVars == <<ipLimiters, limiters, now, passes, balancers>>

vars == <<revision, redis, pgLLM, pgEmb, ret, upserted, reqs, received, embCache,
          ipLimiters, limiters, now, passes, balancers>>


-----------------------------------------------------------------------------
(* Bounds of the model *)

\* number of distinct JSON documents an upstream or a caller may produce
NumDocs == 2

\* number of chat-completion requests served in one behaviour
NumLLMRequests == 2

\* number of embedding requests served in one behaviour
NumEmbRequests == 2

\* largest number of inputs of one embedding request
MaxInputs == 3

-----------------------------------------------------------------------------
(* Values *)

\* A nil record pointer, and a nil error.
Nil == [nil |-> TRUE]

NoErr == "nil"

Docs == 1..NumDocs

\* A JSON text: the document it denotes and how it is written.
\*   "spaced"  - with insignificant whitespace, as a peer may send it
\*   "compact" - without insignificant whitespace (encoding/json output)
\*   "jsonb"   - PostgreSQL's jsonb output form ({"k": v, ...})
\*   "quoted"  - a JSON string literal wrapping a text that is not JSON
JSONText(d, f) == [doc |-> d, fmt |-> f]

\* json.Marshal of a json.RawMessage field compacts the raw text.
JSONCompact(j) == IF j.fmt = "quoted" THEN j ELSE [j EXCEPT !.fmt = "compact"]

\* A JSONB column stores the document, not its text; reading gives jsonb's own form.
PgJSONB(j) == IF j.fmt = "quoted" THEN j ELSE [j EXCEPT !.fmt = "jsonb"]

\* Two JSON texts denote the same document.
JSONEquivalent(a, b) == a.doc = b.doc /\ (a.fmt = "quoted") = (b.fmt = "quoted")

\* utils.MakeHash: the SHA-256 digest of a string, taken as collision-free.
MakeHash(s) == <<"sha256", s>>

-----------------------------------------------------------------------------
(* Dynamic maps *)

Put(m, k, v) == [x \in (DOMAIN m) \cup {k} |-> IF x = k THEN v ELSE m[x]]

Del(m, k) == [x \in (DOMAIN m) \ {k} |-> m[x]]

Has(m, k) == k \in DOMAIN m

EmptyMap == [x \in {} |-> Nil]

\* A process that has served nothing: no limiter, no balancer, clock at 0.
NoGate ==
    /\ ipLimiters = EmptyMap
    /\ limiters = EmptyMap
    /\ now = 0
    /\ passes = EmptyMap
    /\ balancers = EmptyMap

-----------------------------------------------------------------------------
(* Tier-1: pkg/redis *)

\* What a value is after json.Marshal on Set and json.Unmarshal on Get: the
\* raw JSON fields of a record come back compacted, everything else unchanged.
RedisJSON(value) ==
    IF "Request" \in DOMAIN value
    THEN [value EXCEPT !.Response = JSONCompact(@)]
    ELSE value

\* Redis.Get: (found, err) and the decoded value.  fail: the server call errors.
RedisGet(r, key, fail) ==
    IF fail THEN [found |-> FALSE, err |-> "redis", val |-> Nil]
    ELSE IF ~Has(r, key) THEN [found |-> FALSE, err |-> NoErr, val |-> Nil]
    ELSE [found |-> TRUE, err |-> NoErr, val |-> r[key]]

\* Redis.Set: the new contents and err.
RedisSet(r, key, value, fail) ==
    IF fail THEN [redis |-> r, err |-> "redis"]
    ELSE [redis |-> Put(r, key, RedisJSON(value)), err |-> NoErr]

-----------------------------------------------------------------------------
(* Tier-2: pkg/db *)

\* The rows of a table whose hash column is hash.
RowsWithHash(table, hash) == {k \in DOMAIN table : k[1] = hash}

\* The choices QueryRow has: SELECT ... WHERE request_hash = $1 has no ORDER BY,
\* so any matching row may come first.
RowChoices(table, hash) ==
    IF RowsWithHash(table, hash) = {} THEN {Nil} ELSE RowsWithHash(table, hash)

\* Postgres.UpsertLLM: INSERT ... ON CONFLICT (request_hash, model_name) DO UPDATE
\* SET response = EXCLUDED.response, ...   The hash is that of string(rec.Request).
PgUpsertLLM(table, rec, fail) ==
    LET hash == MakeHash(rec.Request)
        k == <<hash, rec.ModelName>>
        row == [RequestHash |-> hash, Request |-> rec.Request,
                ModelName |-> rec.ModelName, Response |-> PgJSONB(rec.Response)]
    IN IF fail THEN [table |-> table, err |-> "postgres", hash |-> hash]
       ELSE IF Has(table, k)
            THEN [table |-> [table EXCEPT ![k].Response = PgJSONB(rec.Response)],
                  err |-> NoErr, hash |-> hash]
            ELSE [table |-> Put(table, k, row), err |-> NoErr, hash |-> hash]

\* Postgres.GetLLM: QueryRow(...).Scan; no row is pgx.ErrNoRows.
PgGetLLM(table, request, fail, pick) ==
    LET hash == MakeHash(request) IN
    IF fail THEN [rec |-> Nil, err |-> "postgres"]
    ELSE IF RowsWithHash(table, hash) = {} THEN [rec |-> Nil, err |-> "ErrNoRows"]
    ELSE [rec |-> table[pick], err |-> NoErr]

-----------------------------------------------------------------------------
(* internal/storage, current revision: Storage.GetLLM and Storage.UpsertLLM *)

\* The environment of one Storage call: which of the server calls it makes fail.
\*   get - the Redis GET, db - the Postgres statement, set - the Redis SET
Failures == [get : BOOLEAN, db : BOOLEAN, set : BOOLEAN]

NoFailure == [get |-> FALSE, db |-> FALSE, set |-> FALSE]

\* What a Storage call reports: the record and error it returns, the contents
\* of both tiers afterwards, and what it did with each tier.
Result(rec, err, r, table, t1, t2, set) ==
    [rec |-> rec, err |-> err, redis |-> r, table |-> table,
     t1 |-> t1, t2 |-> t2, set |-> set]

\* A Storage.GetLLM that answers from Redis alone: a Redis miss is not-found.
GetLLMTier1Only(r, table, request, modelName, f, pick) ==
    LET c == RedisGet(r, <<"llm:", MakeHash(request)>>, f.get) IN
    IF c.err = NoErr /\ c.found
    THEN Result(c.val, NoErr, r, table, "hit", "skipped", "skipped")
    ELSE Result(Nil, NoErr, r, table, "miss", "skipped", "skipped")

\* A Storage.GetLLM that gives up the read when the write-back to Redis fails.
GetLLMStrictBackfill(r, table, request, modelName, f, pick) ==
    LET key == <<"llm:", MakeHash(request)>>
        c == RedisGet(r, key, f.get)
        t1 == IF c.err # NoErr THEN "err" ELSE "miss"
        p == PgGetLLM(table, request, f.db, pick)
        w == RedisSet(r, key, p.rec, f.set)
    IN IF c.err = NoErr /\ c.found
       THEN Result(c.val, NoErr, r, table, "hit", "skipped", "skipped")
       ELSE IF p.err = "ErrNoRows"
       THEN Result(Nil, NoErr, r, table, t1, "notfound", "skipped")
       ELSE IF p.err # NoErr
       THEN Result(Nil, p.err, r, table, t1, "err", "skipped")
       ELSE IF w.err # NoErr
       THEN Result(Nil, w.err, r, table, t1, "hit", "err")
       ELSE Result(p.rec, NoErr, w.redis, table, t1, "hit", "ok")

\* Storage.GetLLM: Redis first; on a miss or a Redis error, Postgres; a row found
\* there is written back to Redis, and a failure of that write is only logged.
GetLLM(r, table, request, modelName, f, pick) ==
    LET key == <<"llm:", MakeHash(request)>>
        c == RedisGet(r, key, f.get)
        t1 == IF c.err # NoErr THEN "err" ELSE "miss"
        p == PgGetLLM(table, request, f.db, pick)
        w == RedisSet(r, key, p.rec, f.set)
    IN IF c.err = NoErr /\ c.found
       THEN Result(c.val, NoErr, r, table, "hit", "skipped", "skipped")
       ELSE IF p.err = "ErrNoRows"
       THEN Result(Nil, NoErr, r, table, t1, "notfound", "skipped")
       ELSE IF p.err # NoErr
       THEN Result(Nil, p.err, r, table, t1, "err", "skipped")
       ELSE Result(p.rec, NoErr, w.redis, table, t1, "hit",
                   IF w.err = NoErr THEN "ok" ELSE "err")

\* Storage.UpsertLLM: Postgres first, and its failure is returned; then Redis,
\* under the hash Postgres.UpsertLLM put into the record, and a failure of that
\* write is only logged.
UpsertLLM(r, table, rec, f) ==
    LET d == PgUpsertLLM(table, rec, f.db)
        key == <<"llm:", d.hash>>
        w == RedisSet(r, key, [rec EXCEPT !.RequestHash = d.hash], f.set)
    IN IF rec = Nil
       THEN Result(Nil, "nil record", r, table, "skipped", "skipped", "skipped")
       ELSE IF d.err # NoErr
       THEN Result(Nil, d.err, r, table, "skipped", "err", "skipped")
       ELSE Result(Nil, NoErr, w.redis, d.table, "skipped", "ok",
                   IF w.err = NoErr THEN "ok" ELSE "err")

-----------------------------------------------------------------------------
(* internal/storage/storage.go: the revision of Storage whose LLM cache is   *)
(* keyed on prompt, model, temperature and max_tokens.  Its Postgres layer   *)
(* is not in the tree; its table is taken to be llm_cache as above, one row  *)
(* per (request_hash, model_name), a missing row being pgx.ErrNoRows.        *)

\* fmt.Sprintf("%s|%s|%f|%d", prompt, modelName, temperature, maxTokens)
Rev0Key(prompt, modelName, temperature, maxTokens) ==
    <<"llm:", MakeHash(<<prompt, "|", modelName, "|", temperature, "|", maxTokens>>)>>

\* Storage.GetLLM of storage.go: an error of the Redis query is returned.
GetLLMRev0(r, table, prompt, modelName, temperature, maxTokens, f) ==
    LET key == Rev0Key(prompt, modelName, temperature, maxTokens)
        k == <<key[2], modelName>>
        c == RedisGet(r, key, f.get)
        w == RedisSet(r, key, table[k], f.set)
    IN IF c.err # NoErr
       THEN Result(Nil, c.err, r, table, "err", "skipped", "skipped")
       ELSE IF c.found
       THEN Result(c.val, NoErr, r, table, "hit", "skipped", "skipped")
       ELSE IF f.db
       THEN Result(Nil, "postgres", r, table, "miss", "err", "skipped")
       ELSE IF ~Has(table, k)
       THEN Result(Nil, "ErrNoRows", r, table, "miss", "notfound", "skipped")
       ELSE Result(table[k], NoErr, w.redis, table, "miss", "hit",
                   IF w.err = NoErr THEN "ok" ELSE "err")

\* Storage.UpsertLLM of storage.go: Postgres, then Redis, whose error is returned.
UpsertLLMRev0(r, table, prompt, modelName, temperature, maxTokens, response, f) ==
    LET key == Rev0Key(prompt, modelName, temperature, maxTokens)
        k == <<key[2], modelName>>
        rec == [RequestHash |-> key[2], Prompt |-> prompt, ModelName |-> modelName,
                Response |-> response]
        w == RedisSet(r, key, rec, f.set)
    IN IF f.db
       THEN Result(Nil, "postgres", r, table, "skipped", "err", "skipped")
       ELSE Result(Nil, w.err, w.redis, Put(table, k, rec), "skipped", "ok",
                   IF w.err = NoErr THEN "ok" ELSE "err")

-----------------------------------------------------------------------------
(* internal/storage, current revision: the embedding cache *)

\* Go's string concatenation, texts being sequences of characters.
Concat(a, b) == a \o b

\* The row of embedding_cache for (inputText, modelName) and the Redis key.
EmbeddingHash(inputText, modelName) == MakeHash(Concat(inputText, modelName))

\* Postgres.GetEmbedding: WHERE input_hash = $1 AND model_name = $2; Scan
\* returns pgx.ErrNoRows when there is no such row.
PgGetEmbedding(table, inputText, modelName, fail) ==
    LET k == <<EmbeddingHash(inputText, modelName), modelName>> IN
    IF fail THEN [rec |-> Nil, err |-> "postgres"]
    ELSE IF ~Has(table, k) THEN [rec |-> Nil, err |-> "ErrNoRows"]
    ELSE [rec |-> table[k], err |-> NoErr]

\* Postgres.UpsertEmbedding: ON CONFLICT (input_hash, model_name) DO UPDATE
\* SET embedding = EXCLUDED.embedding.
PgUpsertEmbedding(table, inputText, modelName, embedding, fail) ==
    LET hash == EmbeddingHash(inputText, modelName)
        k == <<hash, modelName>>
        row == [InputHash |-> hash, InputText |-> inputText,
                ModelName |-> modelName, Embedding |-> embedding]
    IN IF fail THEN [table |-> table, err |-> "postgres"]
       ELSE IF Has(table, k)
            THEN [table |-> [table EXCEPT ![k].Embedding = embedding], err |-> NoErr]
            ELSE [table |-> Put(table, k, row), err |-> NoErr]

\* Storage.GetEmbedding: Redis first; on a miss or a Redis error, Postgres,
\* every error of which is returned; a row found is written back to Redis.
GetEmbedding(r, table, inputText, modelName, f) ==
    LET key == <<"embedding:", EmbeddingHash(inputText, modelName)>>
        c == RedisGet(r, key, f.get)
        t1 == IF c.err # NoErr THEN "err" ELSE "miss"
        p == PgGetEmbedding(table, inputText, modelName, f.db)
        w == RedisSet(r, key, p.rec, f.set)
    IN IF c.err = NoErr /\ c.found
       THEN Result(c.val, NoErr, r, table, "hit", "skipped", "skipped")
       ELSE IF p.err # NoErr
       THEN Result(Nil, p.err, r, table, t1,
                   IF p.err = "ErrNoRows" THEN "notfound" ELSE "err", "skipped")
       ELSE Result(p.rec, NoErr, w.redis, table, t1, "hit",
                   IF w.err = NoErr THEN "ok" ELSE "err")

\* Storage.UpsertEmbedding: Postgres first, and its failure is returned; then
\* Redis, and a failure of that write is only logged.
UpsertEmbedding(r, table, inputText, modelName, embedding, f) ==
    LET d == PgUpsertEmbedding(table, inputText, modelName, embedding, f.db)
        hash == EmbeddingHash(inputText, modelName)
        key == <<"embedding:", hash>>
        rec == [InputHash |-> hash, InputText |-> inputText,
                ModelName |-> modelName, Embedding |-> embedding]
        w == RedisSet(r, key, rec, f.set)
    IN IF d.err # NoErr
       THEN Result(Nil, d.err, r, table, "skipped", "err", "skipped")
       ELSE Result(Nil, NoErr, w.redis, d.table, "skipped", "ok",
                   IF w.err = NoErr THEN "ok" ELSE "err")

-----------------------------------------------------------------------------
(* The cache store used through its API: one action per Storage call *)

\* The (request, model) pairs callers use: one request body, sent for two
\* model names.
StoreCalls == {<<"q1", "gpt-4">>, <<"q1", "gpt-4o">>}

\* The responses a caller may store: any document in compact form, and one
\* document also with insignificant whitespace.
Responses == {JSONText(d, "compact") : d \in Docs} \cup {JSONText(1, "spaced")}

\* The one (temperature, max_tokens) pair callers of the storage.go revision use.
Rev0Temperature == "0.700000"

Rev0MaxTokens == 256

Returned(op, request, model, res) ==
    [op |-> op, request |-> request, model |-> model, rec |-> res.rec,
     err |-> res.err, t1 |-> res.t1, t2 |-> res.t2, set |-> res.set]

NoCall(request, model) ==
    [op |-> "none", request |-> request, model |-> model, rec |-> Nil,
     err |-> NoErr, t1 |-> "skipped", t2 |-> "skipped", set |-> "skipped"]

\* An upsert never reads tier-1, so only the two writes can fail.
WriteFailures == {f \in Failures : ~f.get}

NoUpsert == [request |-> "", model |-> "", response |-> Nil]

InitStoreLLM ==
    /\ revision \in {"current", "storage.go"}
    /\ redis = EmptyMap
    /\ pgLLM = EmptyMap
    /\ pgEmb = EmptyMap
    /\ ret = NoCall("", "")
    /\ upserted = NoUpsert
    /\ reqs = <<>>
    /\ received = 0
    /\ embCache = EmptyMap
    /\ NoGate

CallGetLLM ==
    /\ revision = "current"
    /\ \E c \in StoreCalls, f \in Failures :
       \E pick \in RowChoices(pgLLM, MakeHash(c[1])) :
          LET res == GetLLM(redis, pgLLM, c[1], c[2], f, pick) IN
          /\ redis' = res.redis
          /\ ret' = Returned("GetLLM", c[1], c[2], res)
    /\ UNCHANGED <<revision, pgLLM, pgEmb, upserted, reqs, embCache, received, gateVars>>

CallUpsertLLM ==
    /\ revision = "current"
    /\ \E c \in StoreCalls, response \in Responses, f \in WriteFailures :
          LET rec == [RequestHash |-> "", Request |-> c[1], ModelName |-> c[2],
                      Response |-> response]
              res == UpsertLLM(redis, pgLLM, rec, f)
          IN /\ redis' = res.redis
             /\ pgLLM' = res.table
             /\ ret' = Returned("UpsertLLM", c[1], c[2], res)
             /\ upserted' = IF res.err = NoErr
                            THEN [request |-> c[1], model |-> c[2], response |-> response]
                            ELSE upserted
    /\ UNCHANGED <<revision, pgEmb, reqs, embCache, received, gateVars>>

CallGetLLMRev0 ==
    /\ revision = "storage.go"
    /\ \E c \in StoreCalls, f \in Failures :
          LET res == GetLLMRev0(redis, pgLLM, c[1], c[2], Rev0Temperature,
                                Rev0MaxTokens, f) IN
          /\ redis' = res.redis
          /\ ret' = Returned("GetLLM", c[1], c[2], res)
    /\ UNCHANGED <<revision, pgLLM, pgEmb, upserted, reqs, embCache, received, gateVars>>

CallUpsertLLMRev0 ==
    /\ revision = "storage.go"
    /\ \E c \in StoreCalls, response \in Responses, f \in WriteFailures :
          LET res == UpsertLLMRev0(redis, pgLLM, c[1], c[2], Rev0Temperature,
                                   Rev0MaxTokens, response, f) IN
          /\ redis' = res.redis
          /\ pgLLM' = res.table
          /\ ret' = Returned("UpsertLLM", c[1], c[2], res)
          /\ upserted' = IF res.err = NoErr
                         THEN [request |-> c[1], model |-> c[2], response |-> response]
                         ELSE upserted
    /\ UNCHANGED <<revision, pgEmb, reqs, embCache, received, gateVars>>

\* A Redis entry reaches the end of its one-hour TTL.
RedisExpire ==
    /\ \E key \in DOMAIN redis : redis' = Del(redis, key)
    /\ UNCHANGED <<revision, pgLLM, pgEmb, ret, upserted, reqs, embCache, received, gateVars>>

NextStoreLLM ==
    \/ CallGetLLM
    \/ CallUpsertLLM
    \/ CallGetLLMRev0
    \/ CallUpsertLLMRev0
    \/ RedisExpire

SpecStoreLLM == InitStoreLLM /\ [][NextStoreLLM]_vars

\* The (input text, model name) pairs embedding callers use, as character
\* sequences: the last two concatenate to the same string.
EmbCalls == {<<<<"a">>, <<"c">>>>, <<<<"a">>, <<"b", "c">>>>, <<<<"a", "b">>, <<"c">>>>}

\* Embedding vectors, one per document.
Embeddings == Docs

InitStoreEmb ==
    /\ revision = "current"
    /\ redis = EmptyMap
    /\ pgLLM = EmptyMap
    /\ pgEmb = EmptyMap
    /\ ret = NoCall(<<>>, <<>>)
    /\ upserted = NoUpsert
    /\ reqs = <<>>
    /\ received = 0
    /\ embCache = EmptyMap
    /\ NoGate

CallGetEmbedding ==
    /\ \E c \in EmbCalls, f \in Failures :
          LET res == GetEmbedding(redis, pgEmb, c[1], c[2], f) IN
          /\ redis' = res.redis
          /\ ret' = Returned("GetEmbedding", c[1], c[2], res)
    /\ UNCHANGED <<revision, pgLLM, pgEmb, upserted, reqs, embCache, received, gateVars>>

CallUpsertEmbedding ==
    /\ \E c \in EmbCalls, embedding \in Embeddings, f \in WriteFailures :
          LET res == UpsertEmbedding(redis, pgEmb, c[1], c[2], embedding, f) IN
          /\ redis' = res.redis
          /\ pgEmb' = res.table
          /\ ret' = Returned("UpsertEmbedding", c[1], c[2], res)
    /\ UNCHANGED <<revision, pgLLM, upserted, reqs, embCache, received, gateVars>>

NextStoreEmb ==
    \/ CallGetEmbedding
    \/ CallUpsertEmbedding
    \/ RedisExpire

SpecStoreEmb == InitStoreEmb /\ [][NextStoreEmb]_vars

-----------------------------------------------------------------------------
(* Claims about the cache store *)

\* C7: a read whose tier-1 query errored does not fail for that reason:
\* tier-2 is queried, and the caller gets the record it holds (no error) or
\* not-found (no record, no error).
C7_Tier1FailureDegradesToTier2 ==
    (ret.op = "GetLLM" /\ ret.t1 = "err") =>
        /\ ret.t2 # "skipped"
        /\ ret.t2 = "hit" => (ret.err = NoErr /\ ret.rec # Nil)
        /\ ret.t2 = "notfound" => (ret.err = NoErr /\ ret.rec = Nil)

\* C8: an embedding lookup of a key absent from both tiers returns no record
\* and no error.
C8_AbsentKeyIsNotFound ==
    (ret.op = "GetEmbedding" /\ ret.t1 = "miss" /\ ret.t2 = "notfound") =>
        (ret.rec = Nil /\ ret.err = NoErr)

\* C9: an upsert returns an error exactly when its tier-2 write failed, and
\* tier-1 is written only after a successful tier-2 write.
C9_UpsertFailsOnlyOnTier2 ==
    ret.op = "UpsertLLM" =>
        /\ (ret.err # NoErr) <=> (ret.t2 = "err")
        /\ ret.set # "skipped" => ret.t2 = "ok"

\* C10: in the current Storage, a successful getLLM(B, M) that follows the
\* most recent successful upsertLLM of (B, M, R) returns a record whose
\* response is R (here even only up to JSON whitespace, and with no row
\* stored under another model name).
C10_GetReturnsLastUpsert ==
    (/\ revision = "current"
     /\ \A k \in DOMAIN pgLLM : k[2] = ret.model
     /\ ret.op = "GetLLM"
     /\ ret.err = NoErr
     /\ upserted.request = ret.request
     /\ upserted.model = ret.model) =>
        (ret.rec # Nil /\ JSONEquivalent(ret.rec.Response, upserted.response))

\* C11: a read that misses tier-1 and hits tier-2 returns the record without
\* error whether or not the write-back to tier-1 succeeds; when the write-back
\* succeeds, tier-1 holds that record (its JSON re-encoded) under the read's
\* key, and a following read of the same key with working tiers is answered
\* from tier-1, without querying tier-2, with that record.
C11_ReadThroughRepopulatesTier1 ==
    [][(CallGetLLM /\ ret'.t1 = "miss" /\ ret'.t2 = "hit") =>
          LET key == <<"llm:", MakeHash(ret'.request)>> IN
          /\ ret'.err = NoErr
          /\ ret'.rec # Nil
          /\ ret'.set \in {"ok", "err"}
          /\ ret'.set = "err" => redis' = redis
          /\ ret'.set = "ok" =>
                /\ Has(redis', key)
                /\ redis'[key] = RedisJSON(ret'.rec)
                /\ \A pick \in RowChoices(pgLLM', MakeHash(ret'.request)) :
                      LET again == GetLLM(redis', pgLLM', ret'.request, ret'.model,
                                          NoFailure, pick)
                      IN /\ again.t1 = "hit" /\ again.t2 = "skipped"
                         /\ again.err = NoErr
                         /\ again.rec = RedisJSON(ret'.rec)
                         /\ JSONEquivalent(again.rec.Response, ret'.rec.Response)]_vars

\* A read missed tier-1, found the row in tier-2 and wrote it back, and the
\* entry is in tier-1.
C11_Witness ==
    /\ revision = "current"
    /\ ret.op = "GetLLM" /\ ret.t1 = "miss" /\ ret.t2 = "hit" /\ ret.set = "ok"
    /\ Has(redis, <<"llm:", MakeHash(ret.request)>>)
    /\ redis[<<"llm:", MakeHash(ret.request)>>] = RedisJSON(ret.rec)

-----------------------------------------------------------------------------
(* The proxy handler on POST /chat/completions *)

\* A request body: whether it parses as JSON, its "model" and its "stream"
\* member ("absent", "false", "true", or "nonbool" for a non-boolean value).
ChatBody(id, model, stream) ==
    [id |-> id, json |-> TRUE, model |-> model, stream |-> stream]

LLMBodies ==
    { ChatBody(1, "gpt-4", "absent"),
      ChatBody(2, "gpt-4", "false"),
      ChatBody(3, "gpt-4", "true"),
      ChatBody(4, "gpt-4", "nonbool"),
      ChatBody(5, "", "absent"),
      [id |-> 6, json |-> FALSE, model |-> "", stream |-> "absent"] }

\* What an upstream sends back: a status, and a body that is a JSON document
\* ("compact" or "spaced"), a text that is not JSON ("text") or bytes that are
\* not UTF-8 ("binary"), possibly gzip-compressed (enc = "gzip") or labelled
\* gzip while being a truncated stream (enc = "badgzip"); or a response
\* without a body (resp.Body == nil, fmt = "nil"). Document 0 is the error
\* document an upstream sends with a status other than 200.
UpstreamResponse(status, d, f, enc) ==
    [status |-> status, doc |-> d, fmt |-> f, enc |-> enc]

UpstreamResponses ==
    {UpstreamResponse(200, d, "compact", "") : d \in Docs} \cup
    { UpstreamResponse(200, 1, "spaced", ""),
      UpstreamResponse(200, 1, "compact", "gzip"),
      UpstreamResponse(200, 1, "compact", "badgzip"),
      UpstreamResponse(200, 1, "text", ""),
      UpstreamResponse(200, 1, "binary", ""),
      UpstreamResponse(200, 0, "nil", ""),
      UpstreamResponse(500, 0, "compact", "") }

\* The bytes written to the client for a cached response.
Sent(j) == [doc |-> j.doc, fmt |-> j.fmt, enc |-> ""]

\* ensureJSONFormat: a valid JSON text is kept as it is; any other text is
\* wrapped as a JSON string.
EnsureJSONFormat(t) ==
    IF t.fmt \in {"compact", "spaced", "jsonb", "quoted"} THEN JSONText(t.doc, t.fmt)
    ELSE JSONText(t.doc, "quoted")

\* A gate that lets every request into the LLM cache, whatever its headers.
ShouldUseLLMCacheIgnoringHeader(bypass) == TRUE

\* shouldUseLLMCache, for a POST to /chat/completions with storage configured:
\* bypass is the value of r.Header.Get("X-LLM-Cache-Bypass").
ShouldUseLLMCache(bypass) == bypass = ""

\* A pre-phase that takes every stream value other than true for false.
HandleLLMCachePreProxyLenientStream(r, table, body, f, pick) ==
    LET g == GetLLM(r, table, body, body.model, f, pick) IN
    IF ~body.json \/ body.stream = "true" \/ body.model = ""
    THEN [handled |-> FALSE, meta |-> FALSE, got |-> "skipped", written |-> Nil,
          redis |-> r]
    ELSE IF g.err # NoErr
    THEN [handled |-> FALSE, meta |-> TRUE, got |-> "err", written |-> Nil,
          redis |-> g.redis]
    ELSE IF g.rec # Nil
    THEN [handled |-> TRUE, meta |-> FALSE, got |-> "hit",
          written |-> Sent(g.rec.Response), redis |-> g.redis]
    ELSE [handled |-> FALSE, meta |-> TRUE, got |-> "miss", written |-> Nil,
          redis |-> g.redis]

\* A pre-phase that gives up caching for the request when the lookup fails.
HandleLLMCachePreProxyErrorBypass(r, table, body, f, pick) ==
    LET g == GetLLM(r, table, body, body.model, f, pick) IN
    IF ~body.json \/ body.stream \in {"true", "nonbool"} \/ body.model = ""
    THEN [handled |-> FALSE, meta |-> FALSE, got |-> "skipped", written |-> Nil,
          redis |-> r]
    ELSE IF g.err # NoErr
    THEN [handled |-> FALSE, meta |-> FALSE, got |-> "err", written |-> Nil,
          redis |-> g.redis]
    ELSE IF g.rec # Nil
    THEN [handled |-> TRUE, meta |-> FALSE, got |-> "hit",
          written |-> Sent(g.rec.Response), redis |-> g.redis]
    ELSE [handled |-> FALSE, meta |-> TRUE, got |-> "miss", written |-> Nil,
          redis |-> g.redis]

\* handleLLMCachePreProxy: (handled, meta), the lookup's outcome, the response
\* written on a hit, and tier-1 after the lookup.
HandleLLMCachePreProxy(r, table, body, f, pick) ==
    LET g == GetLLM(r, table, body, body.model, f, pick) IN
    IF ~body.json \/ body.stream \in {"true", "nonbool"} \/ body.model = ""
    THEN [handled |-> FALSE, meta |-> FALSE, got |-> "skipped", written |-> Nil,
          redis |-> r]
    ELSE IF g.err # NoErr
    THEN [handled |-> FALSE, meta |-> TRUE, got |-> "err", written |-> Nil,
          redis |-> g.redis]
    ELSE IF g.rec # Nil
    THEN [handled |-> TRUE, meta |-> FALSE, got |-> "hit",
          written |-> Sent(g.rec.Response), redis |-> g.redis]
    ELSE [handled |-> FALSE, meta |-> TRUE, got |-> "miss", written |-> Nil,
          redis |-> g.redis]

\* A working copy that is the body as received, compressed or not.
BodyToStoreAsReceived(up) ==
    IF up.enc # "" THEN [doc |-> up.doc, fmt |-> "binary"]
    ELSE [doc |-> up.doc, fmt |-> up.fmt]

\* The working copy the post-phase stores: the body, decompressed when it is
\* a readable gzip stream; the raw bytes otherwise.
BodyToStore(up) ==
    IF up.enc = "badgzip" THEN [doc |-> up.doc, fmt |-> "binary"]
    ELSE [doc |-> up.doc, fmt |-> up.fmt]

\* The body of a response as bytes on the wire, and len() of it: a gzip
\* stream has its own length, different from that of what it holds.
WireBody(up) == [doc |-> up.doc, fmt |-> up.fmt, enc |-> up.enc]

ByteLength(b) ==
    LET plain == CASE b.fmt = "nil" -> 0
                   [] b.fmt = "compact" -> 20 + 2 * b.doc
                   [] b.fmt = "spaced" -> 26 + 2 * b.doc
                   [] b.fmt = "text" -> 11 + b.doc
                   [] OTHER -> 16 + b.doc
    IN IF b.enc = "" \/ b.fmt = "nil" THEN plain ELSE 18 + plain \div 2

\* A post-phase that stores the response of the upstream whatever its status.
HandleLLMCachePostResponseAnyStatus(r, table, body, up, f) ==
    LET rec == [RequestHash |-> "", Request |-> body, ModelName |-> body.model,
                Response |-> EnsureJSONFormat(BodyToStore(up))]
        u == UpsertLLM(r, table, rec, f)
    IN IF up.fmt = "nil"
       THEN [cache |-> "", stored |-> "skipped", redis |-> r, table |-> table,
             rec |-> Nil, body |-> WireBody(up), length |-> ByteLength(WireBody(up))]
       ELSE IF BodyToStore(up).fmt = "binary"
       THEN [cache |-> "MISS", stored |-> "skipped", redis |-> r, table |-> table,
             rec |-> Nil, body |-> WireBody(up), length |-> ByteLength(WireBody(up))]
       ELSE [cache |-> "MISS", stored |-> IF u.err = NoErr THEN "ok" ELSE "err",
             redis |-> u.redis, table |-> u.table,
             rec |-> rec, body |-> WireBody(up), length |-> ByteLength(WireBody(up))]

\* handleLLMCachePostResponse: the X-LLM-Cache header it sets, whether the
\* record was stored, and both tiers afterwards; the record handed to
\* UpsertLLM (made from the working copy), the body put back in the response
\* (the bytes read from it) and the Content-Length set from them.
HandleLLMCachePostResponse(r, table, body, up, f) ==
    LET rec == [RequestHash |-> "", Request |-> body, ModelName |-> body.model,
                Response |-> EnsureJSONFormat(BodyToStore(up))]
        u == UpsertLLM(r, table, rec, f)
        bodyBytes == WireBody(up)
    IN IF up.status # 200 \/ up.fmt = "nil"
       THEN [cache |-> "", stored |-> "skipped", redis |-> r, table |-> table,
             rec |-> Nil, body |-> WireBody(up), length |-> ByteLength(WireBody(up))]
       ELSE IF BodyToStore(up).fmt = "binary"
       THEN [cache |-> "MISS", stored |-> "skipped", redis |-> r, table |-> table,
             rec |-> Nil, body |-> bodyBytes, length |-> ByteLength(bodyBytes)]
       ELSE [cache |-> "MISS", stored |-> IF u.err = NoErr THEN "ok" ELSE "err",
             redis |-> u.redis, table |-> u.table,
             rec |-> rec, body |-> bodyBytes, length |-> ByteLength(bodyBytes)]

\* The client connections: two requests can be in flight at a time.
Connections == {"c1", "c2"}

\* A connection with no request in flight, and the body of
\* http.Error(w, "Bad Gateway", 502).
Idle ==
    [pc |-> "idle", body |-> Nil, bypass |-> "", meta |-> FALSE,
     got |-> "skipped", working |-> TRUE, upstream |-> FALSE, status |-> 0,
     sent |-> Nil, cache |-> "", stored |-> "skipped", up |-> Nil, rec |-> Nil,
     length |-> 0]

BadGateway == [doc |-> 0, fmt |-> "text", enc |-> ""]

\* The requests clients send: every body without the X-LLM-Cache-Bypass
\* header and with the header set to "1", and the first body also with the
\* header set to "false".
ChatRequests ==
    {[body |-> b, bypass |-> h] : b \in LLMBodies, h \in {"", "1"}} \cup
    {[body |-> ChatBody(1, "gpt-4", "absent"), bypass |-> "false"]}

InitLLM ==
    /\ revision = "current"
    /\ redis = EmptyMap
    /\ pgLLM = EmptyMap
    /\ pgEmb = EmptyMap
    /\ ret = NoCall("", "")
    /\ upserted = NoUpsert
    /\ reqs = [c \in Connections |-> Idle]
    /\ received = 0
    /\ embCache = EmptyMap
    /\ NoGate

\* ServeHTTP up to the hand-over to the reverse proxy: the cache pre-phase
\* answers the request on a hit.
ServeHTTP(i) ==
    /\ reqs[i].pc = "idle"
    /\ received < NumLLMRequests
    /\ received' = received + 1
    /\ \E q \in ChatRequests, f \in Failures :
       \E pick \in RowChoices(pgLLM, MakeHash(q.body)) :
          LET pre == HandleLLMCachePreProxy(redis, pgLLM, q.body, f, pick)
              arrived == [Idle EXCEPT !.body = q.body, !.bypass = q.bypass]
          IN IF ~ShouldUseLLMCache(q.bypass)
             THEN /\ reqs' = [reqs EXCEPT ![i] = [arrived EXCEPT !.pc = "proxying"]]
                  /\ redis' = redis
             ELSE /\ redis' = pre.redis
                  /\ reqs' = [reqs EXCEPT ![i] =
                        IF pre.handled
                        THEN [arrived EXCEPT !.pc = "done", !.got = pre.got,
                                             !.working = (f = NoFailure),
                                             !.status = 200, !.sent = pre.written,
                                             !.cache = "HIT"]
                        ELSE [arrived EXCEPT !.pc = "proxying", !.got = pre.got,
                                             !.working = (f = NoFailure),
                                             !.meta = pre.meta]]
    /\ UNCHANGED <<revision, pgLLM, pgEmb, ret, upserted, embCache, gateVars>>

\* The reverse proxy gets the upstream's response, runs modifyResponse on it
\* and copies it to the client.
ProxyResponse(i) ==
    /\ reqs[i].pc = "proxying"
    /\ \E up \in UpstreamResponses, f \in WriteFailures :
          LET post == HandleLLMCachePostResponse(redis, pgLLM, reqs[i].body, up, f)
              answered == [reqs[i] EXCEPT !.pc = "done", !.upstream = TRUE,
                                          !.status = up.status, !.up = up,
                                          !.sent = WireBody(up),
                                          !.length = ByteLength(WireBody(up))]
          IN IF reqs[i].meta
             THEN /\ reqs' = [reqs EXCEPT ![i] = [answered EXCEPT !.cache = post.cache,
                                                               !.stored = post.stored,
                                                               !.sent = post.body,
                                                               !.rec = post.rec,
                                                               !.length = post.length]]
                  /\ redis' = post.redis
                  /\ pgLLM' = post.table
             ELSE /\ reqs' = [reqs EXCEPT ![i] = answered]
                  /\ UNCHANGED <<redis, pgLLM>>
    /\ UNCHANGED <<revision, pgEmb, ret, upserted, embCache, received, gateVars>>

\* The round trip to the upstream fails: errorHandler answers 502.
ProxyError(i) ==
    /\ reqs[i].pc = "proxying"
    /\ reqs' = [reqs EXCEPT ![i] = [@ EXCEPT !.pc = "done", !.upstream = TRUE,
                                             !.status = 502, !.sent = BadGateway]]
    /\ UNCHANGED <<revision, redis, pgLLM, pgEmb, ret, upserted, embCache, received, gateVars>>

\* ServeHTTP returns: the handler keeps nothing of a finished request.
Return(i) ==
    /\ reqs[i].pc = "done"
    /\ reqs' = [reqs EXCEPT ![i] = Idle]
    /\ UNCHANGED <<revision, redis, pgLLM, pgEmb, ret, upserted, embCache, received, gateVars>>

NextLLM ==
    \/ \E i \in Connections : ServeHTTP(i)
    \/ \E i \in Connections : ProxyResponse(i)
    \/ \E i \in Connections : ProxyError(i)
    \/ \E i \in Connections : Return(i)
    \/ RedisExpire

SpecLLM == InitLLM /\ [][NextLLM]_vars

-----------------------------------------------------------------------------
(* Claims about the chat-completions cache *)

\* A body the LLM cache handles: valid JSON, a model, stream absent or false.
Cacheable(body) ==
    body.json /\ body.model # "" /\ body.stream \in {"absent", "false"}

\* The responses either tier holds for a body, as bytes on the wire.
StoredResponses(r, table, body) ==
    {Sent(table[k].Response) : k \in RowsWithHash(table, MakeHash(body))} \cup
    {Sent(r[key].Response) : key \in {<<"llm:", MakeHash(body)>>} \cap DOMAIN r}

\* C1: with working storage, a request that arrives with a cacheable body for
\* which a 200 response has been persisted is answered at once with
\* X-LLM-Cache: HIT and exactly the response bytes a tier stores for that
\* body, and the upstream is not called for it.
C1_HitAfterPersisted ==
    [][\A i \in Connections :
          (/\ reqs[i].pc = "idle"
           /\ reqs'[i].pc # "idle"
           /\ Cacheable(reqs'[i].body)
           /\ reqs'[i].bypass = ""
           /\ reqs'[i].working
           /\ RowsWithHash(pgLLM, MakeHash(reqs'[i].body)) # {})
          => (/\ reqs'[i].pc = "done"
              /\ reqs'[i].cache = "HIT"
              /\ reqs'[i].status = 200
              /\ ~reqs'[i].upstream
              /\ reqs'[i].sent \in StoredResponses(redis, pgLLM, reqs'[i].body))]_vars

\* A request was proxied and its response persisted, and another request
\* with the same body was answered from the cache.
C1_Witness ==
    \E i, j \in Connections :
        /\ i # j
        /\ reqs[i].pc = "done" /\ reqs[i].stored = "ok" /\ reqs[i].upstream
        /\ reqs[j].pc = "done" /\ reqs[j].body = reqs[i].body
        /\ reqs[j].cache = "HIT" /\ reqs[j].working /\ ~reqs[j].upstream

\* C12: a request that carries a non-empty X-LLM-Cache-Bypass header makes no
\* GetLLM call and no UpsertLLM call, whatever its body and whatever the
\* upstream answers: no step of such a request changes either tier, it
\* carries no cache metadata, and it is answered by the upstream.
C12_BypassHeaderSkipsCache ==
    [][\A i \in Connections :
          (reqs'[i] # reqs[i] /\ reqs'[i].bypass # "") =>
             /\ reqs'[i].got = "skipped"
             /\ reqs'[i].stored = "skipped"
             /\ ~reqs'[i].meta
             /\ reqs'[i].cache = ""
             /\ reqs'[i].pc = "done" => reqs'[i].upstream
             /\ redis' = redis
             /\ pgLLM' = pgLLM]_vars

\* A request with the header set to "false" and a cacheable body whose
\* response is in the cache was answered 200 by the upstream.
C12_Witness ==
    \E i \in Connections :
        /\ reqs[i].pc = "done" /\ reqs[i].bypass = "false"
        /\ Cacheable(reqs[i].body)
        /\ RowsWithHash(pgLLM, MakeHash(reqs[i].body)) # {}
        /\ reqs[i].upstream /\ reqs[i].status = 200

\* C13: for a request without the bypass header whose body is JSON and names
\* a model, GetLLM is called exactly when the stream member is absent or the
\* boolean false, and UpsertLLM is called only then; with "stream": true or a
\* non-boolean stream value no step of the request consults or changes either
\* tier, and the request is answered by the upstream.
C13_StreamingSkipsCache ==
    [][\A i \in Connections :
          (/\ reqs'[i] # reqs[i]
           /\ reqs'[i].pc # "idle"
           /\ reqs'[i].bypass = ""
           /\ reqs'[i].body.json
           /\ reqs'[i].body.model # "") =>
             /\ (reqs'[i].got # "skipped") <=>
                    (reqs'[i].body.stream \in {"absent", "false"})
             /\ (reqs'[i].stored # "skipped") =>
                    (reqs'[i].body.stream \in {"absent", "false"})
             /\ (reqs'[i].body.stream \in {"true", "nonbool"}) =>
                    /\ ~reqs'[i].meta
                    /\ reqs'[i].cache = ""
                    /\ reqs'[i].pc = "done" => reqs'[i].upstream
                    /\ redis' = redis
                    /\ pgLLM' = pgLLM]_vars

\* Two requests with the same body, whose stream member is not a boolean,
\* were both answered 200 by the upstream.
C13_Witness ==
    \E i, j \in Connections :
        /\ i # j
        /\ reqs[i].pc = "done" /\ reqs[j].pc = "done"
        /\ reqs[i].body = reqs[j].body
        /\ reqs[i].body.stream = "nonbool"
        /\ reqs[i].bypass = "" /\ reqs[j].bypass = ""
        /\ reqs[i].upstream /\ reqs[i].status = 200
        /\ reqs[j].upstream /\ reqs[j].status = 200

-----------------------------------------------------------------------------
(* The proxy handler on POST /v1/embeddings *)

\* The input strings clients send; the empty string is one of them.
EmbValues == {"", "a", "b"}

\* The embedding the cache was seeded with for a text, and the one the
\* upstream computes for it.
Seeded(v) == <<"seeded", v>>

Fresh(v) == <<"upstream", v>>

\* The "input" member of a request: one string, or an array of strings.
EmbInputs ==
    {[wasArray |-> FALSE, values |-> <<v>>] : v \in EmbValues} \cup
    {[wasArray |-> TRUE, values |-> vs] :
        vs \in UNION {[1..n -> EmbValues] : n \in 1..MaxInputs}}

\* extractEmbeddingInputs: every input with its original index.
ExtractEmbeddingInputs(values) ==
    [i \in 1..Len(values) |-> [Index |-> i - 1, Value |-> values[i]]]

\* A payload builder that always sends an array, whatever the original input.
BuildMissInputPayloadAlwaysArray(misses, originalWasArray) ==
    [single |-> FALSE, values |-> [k \in 1..Len(misses) |-> misses[k].Value]]

\* buildMissInputPayload: the only miss as a single string when the original
\* input was a string; an array of the miss values otherwise.
BuildMissInputPayload(misses, originalWasArray) ==
    IF ~originalWasArray /\ Len(misses) = 1
    THEN [single |-> TRUE, values |-> <<misses[1].Value>>]
    ELSE [single |-> FALSE, values |-> [k \in 1..Len(misses) |-> misses[k].Value]]

\* A response body in the embeddings API format: its data entries.
EmbeddingList(data) == [kind |-> "list", data |-> data]

\* A marshaller that numbers the data from the last input to the first.
MarshalEmbeddingResponseFromRecordsReversed(inputs, hits) ==
    LET present == SelectSeq(inputs, LAMBDA in : in.Index \in DOMAIN hits) IN
    EmbeddingList([k \in 1..Len(present) |->
        [Index |-> present[Len(present) + 1 - k].Index,
         Embedding |-> hits[present[k].Index]]])

\* marshalEmbeddingResponseFromRecords: one datum per input that has a hit,
\* in input order.
MarshalEmbeddingResponseFromRecords(inputs, hits) ==
    LET present == SelectSeq(inputs, LAMBDA in : in.Index \in DOMAIN hits) IN
    EmbeddingList([k \in 1..Len(present) |->
        [Index |-> present[k].Index, Embedding |-> hits[present[k].Index]]])

\* A pre-phase that goes on after a failed lookup as after a miss.
HandleEmbeddingCachePreProxyErrorAsMiss(cache, input, failAt) ==
    LET inputs == ExtractEmbeddingInputs(input.values)
        hit == {i - 1 : i \in {j \in 1..Len(inputs) : Has(cache, inputs[j].Value)}}
        hits == [x \in hit |-> cache[inputs[x + 1].Value]]
        misses == SelectSeq(inputs, LAMBDA in : ~Has(cache, in.Value))
        none == [single |-> ~input.wasArray, values |-> input.values]
    IN IF Len(misses) = 0
       THEN [handled |-> TRUE, meta |-> FALSE, header |-> "HIT", hits |-> hits,
             misses |-> misses, forwarded |-> none,
             written |-> MarshalEmbeddingResponseFromRecords(inputs, hits)]
       ELSE [handled |-> FALSE, meta |-> TRUE, header |-> "", hits |-> hits,
             misses |-> misses,
             forwarded |-> BuildMissInputPayload(misses, input.wasArray),
             written |-> Nil]

\* handleEmbeddingCachePreProxy on a body with a model and a valid input.
\* failAt is the position of the first lookup that returns an error (0: none).
HandleEmbeddingCachePreProxy(cache, input, failAt) ==
    LET inputs == ExtractEmbeddingInputs(input.values)
        hit == {i - 1 : i \in {j \in 1..Len(inputs) : Has(cache, inputs[j].Value)}}
        hits == [x \in hit |-> cache[inputs[x + 1].Value]]
        misses == SelectSeq(inputs, LAMBDA in : ~Has(cache, in.Value))
        none == [single |-> ~input.wasArray, values |-> input.values]
    IN IF failAt > 0
       THEN [handled |-> FALSE, meta |-> FALSE, header |-> "BYPASS", hits |-> EmptyMap,
             misses |-> <<>>, forwarded |-> none, written |-> Nil]
       ELSE IF Len(misses) = 0
       THEN [handled |-> TRUE, meta |-> FALSE, header |-> "HIT", hits |-> hits,
             misses |-> misses, forwarded |-> none,
             written |-> MarshalEmbeddingResponseFromRecords(inputs, hits)]
       ELSE [handled |-> FALSE, meta |-> TRUE, header |-> "", hits |-> hits,
             misses |-> misses,
             forwarded |-> BuildMissInputPayload(misses, input.wasArray),
             written |-> Nil]

\* What an upstream answers to the forwarded input: 200 with one datum per
\* input sent (data[k].index = k), with or without a "usage" member; 200 with
\* a body that is not JSON; 200 labelled gzip with an unreadable stream; 200
\* without a body (resp.Body == nil); 500 with an error body; or 500 with a
\* body in the embeddings format whose vectors the upstream does not stand for.
UpstreamData(values) ==
    [k \in 1..Len(values) |-> [Index |-> k - 1, Embedding |-> Fresh(values[k])]]

Rejected(v) == <<"rejected", v>>

UpstreamEmbeddings(values) ==
    {[status |-> 200, kind |-> "list", usage |-> u, data |-> UpstreamData(values)] :
        u \in BOOLEAN} \cup
    {[status |-> st[1], kind |-> st[2], usage |-> FALSE, data |-> <<>>] :
        st \in {<<200, "garbled">>, <<200, "badgzip">>, <<200, "nil">>,
                <<500, "error">>}} \cup
    {[status |-> 500, kind |-> "list", usage |-> TRUE,
      data |-> [k \in 1..Len(values) |->
                   [Index |-> k - 1, Embedding |-> Rejected(values[k])]]]}

\* The body as the upstream sent it.
RawBody(up) == [kind |-> up.kind, data |-> up.data]

\* A header that says PARTIAL whenever the request had a hit.
CacheStatusByHits(hits, newIdx) ==
    IF DOMAIN hits # {} THEN "PARTIAL" ELSE "MISS"

\* The X-Embedding-Cache header of a merged response, from the hits of the
\* pre-phase and the indices of the records newly stored.
CacheStatus(hits, newIdx) ==
    IF DOMAIN hits # {} /\ newIdx # {} THEN "PARTIAL"
    ELSE IF DOMAIN hits # {} THEN "HIT" ELSE "MISS"

\* handleEmbeddingCachePostResponse. failing is the set of data positions
\* whose UpsertEmbedding returns an error. The outcome is an error returned to
\* the reverse proxy (err), a nil dereference of payload.Usage (panic), or the
\* X-Embedding-Cache header and the body handed on.
HandleEmbeddingCachePostResponse(cache, total, hits, misses, up, failing) ==
    LET data == up.data
        inRange == {k \in 1..Len(data) :
                       data[k].Index >= 0 /\ data[k].Index < Len(misses)}
        attempted == {k \in inRange : misses[data[k].Index + 1].Value # ""}
        stored == attempted \ failing
        newIdx == {misses[data[k].Index + 1].Index : k \in stored}
        newRecords == [x \in newIdx |->
            data[CHOOSE k \in stored : misses[data[k].Index + 1].Index = x].Embedding]
        lastFor(v) == CHOOSE k \in stored :
                         /\ misses[data[k].Index + 1].Value = v
                         /\ \A j \in stored :
                               misses[data[j].Index + 1].Value = v => j <= k
        written == [v \in {misses[data[k].Index + 1].Value : k \in stored} |->
                       data[lastFor(v)].Embedding]
        cache2 == [v \in DOMAIN cache \cup DOMAIN written |->
                      IF v \in DOMAIN written THEN written[v] ELSE cache[v]]
        all == [i \in 1..total |-> i - 1]
        present == SelectSeq(all, LAMBDA x : x \in DOMAIN hits \/ x \in newIdx)
        combined == [k \in 1..Len(present) |->
            [Index |-> present[k],
             Embedding |-> IF present[k] \in DOMAIN hits THEN hits[present[k]]
                           ELSE newRecords[present[k]]]]
        cacheStatus == CacheStatus(hits, newIdx)
        out(err, panic, header, sent, c, tried) ==
            [err |-> err, panic |-> panic, header |-> header, sent |-> sent,
             cache |-> c, attempted |-> tried]
    IN IF up.status # 200 \/ up.kind = "nil"
       THEN out(FALSE, FALSE, "MISS", RawBody(up), cache, {})
       ELSE IF up.kind # "list" THEN out(TRUE, FALSE, "", Nil, cache, {})
       ELSE IF Len(data) = 1 /\ ~up.usage THEN out(FALSE, TRUE, "", Nil, cache, {})
       ELSE out(FALSE, FALSE, cacheStatus, EmbeddingList(combined), cache2, attempted)

\* No embeddings request in flight.
EmbIdle ==
    [pc |-> "idle", input |-> Nil, failAt |-> 0, meta |-> FALSE,
     hits |-> EmptyMap, misses |-> <<>>, forwarded |-> Nil, up |-> Nil,
     failing |-> {}, upstream |-> FALSE, status |-> 0, sent |-> Nil,
     cache |-> "", panicked |-> FALSE]

\* The cache starts with any of the non-empty texts already stored.
InitEmb ==
    /\ revision = "current"
    /\ redis = EmptyMap
    /\ pgLLM = EmptyMap
    /\ pgEmb = EmptyMap
    /\ ret = NoCall("", "")
    /\ upserted = NoUpsert
    /\ reqs = <<EmbIdle>>
    /\ received = 0
    /\ \E seeded \in SUBSET (EmbValues \ {""}) :
          embCache = [v \in seeded |-> Seeded(v)]
    /\ NoGate

\* ServeHTTP for an embeddings request, up to the hand-over to the reverse
\* proxy; requests are served one after another.
ServeEmbeddings ==
    /\ reqs[1].pc = "idle"
    /\ received < NumEmbRequests
    /\ received' = received + 1
    /\ \E input \in EmbInputs :
       \E failAt \in 0..Len(input.values) :
          LET pre == HandleEmbeddingCachePreProxy(embCache, input, failAt)
              arrived == [EmbIdle EXCEPT
                             !.input = input, !.failAt = failAt, !.hits = pre.hits,
                             !.misses = pre.misses, !.cache = pre.header]
          IN reqs' = <<IF pre.handled
                       THEN [arrived EXCEPT !.pc = "done", !.status = 200,
                                            !.sent = pre.written]
                       ELSE [arrived EXCEPT !.pc = "proxying", !.meta = pre.meta,
                                            !.forwarded = pre.forwarded]>>
    /\ UNCHANGED <<revision, redis, pgLLM, pgEmb, ret, upserted, embCache, gateVars>>

\* The upstream answers; modifyResponse runs the embedding post-phase when
\* the request carries cache metadata, and the result goes to the client.
ProxyEmbeddings ==
    /\ reqs[1].pc = "proxying"
    /\ \E up \in UpstreamEmbeddings(reqs[1].forwarded.values),
          failing \in SUBSET (1..Len(reqs[1].misses)) :
          LET e == reqs[1]
              post == HandleEmbeddingCachePostResponse(embCache, Len(e.input.values),
                                                       e.hits, e.misses, up, failing)
              answered == [e EXCEPT !.pc = "done", !.upstream = TRUE, !.up = up]
          IN IF ~e.meta
             THEN /\ reqs' = <<[answered EXCEPT !.status = up.status,
                                                !.sent = RawBody(up)]>>
                  /\ embCache' = embCache
             ELSE IF post.err
             THEN /\ reqs' = <<[answered EXCEPT !.status = 502, !.sent = BadGateway]>>
                  /\ embCache' = embCache
             ELSE IF post.panic
             THEN /\ reqs' = <<[answered EXCEPT !.panicked = TRUE]>>
                  /\ embCache' = embCache
             ELSE /\ reqs' = <<[answered EXCEPT !.status = up.status,
                                                !.sent = post.sent,
                                                !.cache = post.header,
                                                !.failing = failing \cap post.attempted]>>
                  /\ embCache' = post.cache
    /\ UNCHANGED <<revision, redis, pgLLM, pgEmb, ret, upserted, received, gateVars>>

\* The round trip to the upstream fails: errorHandler answers 502.
ProxyEmbeddingsError ==
    /\ reqs[1].pc = "proxying"
    /\ reqs' = <<[reqs[1] EXCEPT !.pc = "done", !.upstream = TRUE, !.status = 502,
                                 !.sent = BadGateway]>>
    /\ UNCHANGED <<revision, redis, pgLLM, pgEmb, ret, upserted, embCache, received, gateVars>>

\* ServeHTTP returns: the handler keeps nothing of a finished request.
ReturnEmbeddings ==
    /\ reqs[1].pc = "done"
    /\ reqs' = <<EmbIdle>>
    /\ UNCHANGED <<revision, redis, pgLLM, pgEmb, ret, upserted, embCache, received, gateVars>>

NextEmb ==
    \/ ServeEmbeddings
    \/ ReturnEmbeddings
    \/ ProxyEmbeddings
    \/ ProxyEmbeddingsError

SpecEmb == InitEmb /\ [][NextEmb]_vars

\* C24: when the upstream's 200 response to a cacheable request is gzip
\* encoded, the record handed to UpsertLLM holds the decompressed document
\* (which is what the tiers hold after a successful write), while the client
\* receives the gzip stream as the upstream sent it, with a Content-Length
\* that is the length of that stream.
C24_GzipStoredDecompressedSentAsReceived ==
    \A i \in Connections :
       LET e == reqs[i] IN
       (e.pc = "done" /\ e.meta /\ e.up # Nil /\ e.status = 200 /\ e.up.enc = "gzip") =>
           LET plain == JSONText(e.up.doc, e.up.fmt) IN
           /\ e.rec # Nil
           /\ e.rec.Response = EnsureJSONFormat(plain)
           /\ e.stored \in {"ok", "err"}
           /\ e.sent = WireBody(e.up) /\ e.sent.enc = "gzip"
           /\ e.length = ByteLength(e.sent)
           /\ e.length # ByteLength([doc |-> plain.doc, fmt |-> plain.fmt, enc |-> ""])
           /\ e.cache = "MISS"

\* A gzip-encoded response was stored: both tiers hold the decompressed
\* document and the client got the gzip stream.
C24_Witness ==
    \E i \in Connections :
       LET e == reqs[i] IN
       /\ e.pc = "done" /\ e.meta /\ e.up # Nil /\ e.status = 200
       /\ e.up.enc = "gzip" /\ e.stored = "ok" /\ e.sent.enc = "gzip"
       /\ Sent(PgJSONB(e.rec.Response)) \in StoredResponses(redis, pgLLM, e.body)
       /\ Has(redis, <<"llm:", MakeHash(e.body)>>)

\* C25: when GetLLM returns an error in the pre-phase, the request is left
\* exactly as after a miss: nothing is written to the client, the metadata
\* is attached and the request goes upstream; the client then receives the
\* upstream's status and body, and a storable 200 response is handed to
\* UpsertLLM.
C25_LookupErrorIsAMiss ==
    [][\A i \in Connections :
          LET e == reqs[i]
              n == reqs'[i]
          IN /\ (e.pc = "idle" /\ n.got = "err") =>
                   n = [Idle EXCEPT !.pc = "proxying", !.body = n.body,
                                    !.got = "err", !.working = FALSE, !.meta = TRUE]
             /\ (e.pc = "proxying" /\ e.got = "err" /\ n.pc = "done" /\ n.up # Nil) =>
                   /\ n.status = n.up.status
                   /\ n.sent = WireBody(n.up)
                   /\ (n.up.status = 200 /\ n.up.fmt \in {"compact", "spaced", "text"}
                          /\ n.up.enc \in {"", "gzip"}) =>
                         /\ n.cache = "MISS"
                         /\ n.rec # Nil
                         /\ n.rec.Request = e.body
                         /\ n.stored \in {"ok", "err"}
                         /\ n.stored = "ok" =>
                               StoredResponses(redis', pgLLM', e.body) # {}]_vars

\* The lookup for a request failed, the upstream answered it with 200, and
\* the response was persisted.
C25_Witness ==
    \E i \in Connections :
       LET e == reqs[i] IN
       /\ e.pc = "done" /\ e.got = "err" /\ e.meta /\ e.upstream
       /\ e.status = 200 /\ e.cache = "MISS" /\ e.stored = "ok"
       /\ StoredResponses(redis, pgLLM, e.body) # {}

\* C23: the response of the upstream to a request for which the LLM
\* pre-phase attached metadata reaches the client with X-LLM-Cache: MISS,
\* whatever its status and whether or not it has a body or was persisted.
C23_PostPhaseAlwaysSetsMiss ==
    \A i \in Connections :
       LET e == reqs[i] IN
       (e.pc = "done" /\ e.meta /\ e.upstream /\ e.sent # BadGateway) =>
           e.cache = "MISS"

-----------------------------------------------------------------------------
(* Claims about the embeddings cache *)

\* The post-phase merged an upstream 200 in the embeddings format into the
\* response of the request in flight.
Merged(e) ==
    /\ e.pc = "done" /\ e.meta /\ e.upstream /\ e.up # Nil
    /\ e.up.status = 200 /\ e.up.kind = "list"

\* C2: when at least one input missed and the upstream answered 200 with one
\* datum per miss (and a usage member, and every new record was persisted),
\* the response has one entry per input, in index order: the cached embedding
\* at a hit index, the upstream's datum for the k-th miss at that miss's index.
C2_MergedResponseIsComplete ==
    LET e == reqs[1] IN
    (Merged(e) /\ e.up.usage /\ e.failing = {}) =>
        /\ ~e.panicked
        /\ e.status = 200
        /\ e.sent.kind = "list"
        /\ Len(e.sent.data) = Len(e.input.values)
        /\ \A i \in 1..Len(e.input.values) :
              /\ e.sent.data[i].Index = i - 1
              /\ (i - 1) \in DOMAIN e.hits =>
                    e.sent.data[i].Embedding = e.hits[i - 1]
        /\ \A k \in 1..Len(e.misses) :
              e.sent.data[e.misses[k].Index + 1].Embedding = e.up.data[k].Embedding

\* C3: with at least one miss and no storage error, the input forwarded
\* upstream is exactly the uncached values in their original order, as a
\* single string only when the original input was a string (with one miss).
C3_ForwardsExactlyTheMisses ==
    LET e == reqs[1] IN
    (e.pc = "proxying" /\ e.meta) =>
        /\ e.forwarded.values =
              SelectSeq(e.input.values, LAMBDA v : v \notin DOMAIN embCache)
        /\ e.forwarded.single <=>
              (~e.input.wasArray /\ Len(e.forwarded.values) = 1)

\* An array request with a cached input and two uncached ones is on its way
\* to the upstream.
C3_Witness ==
    LET e == reqs[1] IN
    /\ e.pc = "proxying" /\ e.meta /\ e.input.wasArray
    /\ DOMAIN e.hits # {} /\ Len(e.misses) = 2
    /\ e.misses[1].Index < e.misses[2].Index

\* C4: a request all of whose inputs are in the cache is answered by the
\* pre-phase with X-Embedding-Cache: HIT and one entry per input, in index
\* order, carrying the cached embeddings; the request ends there and the
\* upstream is never called for it.
C4_AllHitsServedFromCache ==
    [][LET e == reqs'[1] IN
       /\ (/\ reqs[1].pc = "idle"
           /\ e.pc # "idle"
           /\ e.failAt = 0
           /\ \A i \in 1..Len(e.input.values) : Has(embCache, e.input.values[i]))
          => (/\ e.pc = "done"
              /\ e.cache = "HIT"
              /\ e.status = 200
              /\ ~e.upstream
              /\ e.sent = EmbeddingList([i \in 1..Len(e.input.values) |->
                    [Index |-> i - 1, Embedding |-> embCache[e.input.values[i]]]]))
       /\ (reqs[1].pc = "done" /\ ~reqs[1].upstream) => e.pc \in {"done", "idle"}]_vars

\* A request for two different cached texts was answered from the cache.
C4_Witness ==
    LET e == reqs[1] IN
    /\ e.pc = "done" /\ e.cache = "HIT" /\ ~e.upstream
    /\ Len(e.input.values) >= 2
    /\ e.input.values[1] # e.input.values[2]

\* C5: a failed cache lookup, or a failure of the post-phase to read,
\* decompress or parse the upstream's response, leaves the client with the
\* upstream's status code and body.
C5_FailureKeepsStatusAndBody ==
    LET e == reqs[1] IN
    (/\ e.pc = "done" /\ e.upstream /\ e.up # Nil
     /\ \/ e.failAt > 0
        \/ e.meta /\ e.up.kind \in {"garbled", "badgzip"})
    => (e.status = e.up.status /\ e.sent = RawBody(e.up))

\* C6: a datum whose UpsertEmbedding failed is still in the merged response,
\* at the original index of its input.
C6_UnpersistedDatumStillMerged ==
    LET e == reqs[1] IN
    Merged(e) =>
        \A k \in e.failing :
            /\ e.status = 200
            /\ \E i \in 1..Len(e.sent.data) :
                  /\ e.sent.data[i].Index = e.misses[k].Index
                  /\ e.sent.data[i].Embedding = e.up.data[k].Embedding

-----------------------------------------------------------------------------
(* golang.org/x/time/rate as the handler uses it, and Handler.getIPLimiter *)

\* The clock advances in ticks; a token is TicksPerSecond token units.
TicksPerSecond == 2

\* The last tick of a behaviour.
MaxTicks == 2

\* Config.RateLimit: tokens per second, and the bucket's size.
RateLimitRate == 1

RateLimitBurst == 2

Min(a, b) == IF a < b THEN a ELSE b

\* rate.NewLimiter(rate, burst) for a client IP: a full bucket, in token units.
NewLimiter(ip) == [ip |-> ip, tokens |-> RateLimitBurst * TicksPerSecond, last |-> 0]

\* Limiter.Allow at tick t: the bucket is refilled for the time since its last
\* update, up to the burst; a whole token is taken when there is one, and the
\* bucket is left as it was when there is none.
Allow(bucket, t) ==
    LET last == IF t < bucket.last THEN t ELSE bucket.last
        tokens == Min(RateLimitBurst * TicksPerSecond,
                      bucket.tokens + (t - last) * RateLimitRate)
    IN IF tokens - TicksPerSecond >= 0
       THEN [ok |-> TRUE,
             bucket |-> [bucket EXCEPT !.tokens = tokens - TicksPerSecond, !.last = t]]
       ELSE [ok |-> FALSE, bucket |-> bucket]

\* Where a request comes from: its X-Real-IP and X-Forwarded-For headers
\* ("" when absent) and the peer address of its connection.
Peers ==
    { [xRealIP |-> "10.0.0.1", xForwardedFor |-> "", remoteAddr |-> "10.0.0.9:5000"],
      [xRealIP |-> "", xForwardedFor |-> "", remoteAddr |-> "10.0.0.2:40000"] }

\* utils.GetClientIP
GetClientIP(peer) ==
    IF peer.xRealIP # "" THEN peer.xRealIP
    ELSE IF peer.xForwardedFor # "" THEN peer.xForwardedFor
    ELSE peer.remoteAddr

\* The client IPs requests are attributed to.
ClientIPs == {GetClientIP(peer) : peer \in Peers}

-----------------------------------------------------------------------------
(* pkg proxy: RoundRobinLoadBalancer and LoadBalancerManager *)

\* NewRoundRobinLoadBalancer
NewRoundRobinLoadBalancer(urls) == [urls |-> urls, current |-> 0]

\* An addition that returns the incremented value and loses the update.
AtomicAddLost(rr) == [rr |-> rr, new |-> rr.current + 1]

\* atomic.AddUint64(&rr.current, 1): the counter afterwards and the value the
\* caller gets back. The counter is a uint64; behaviours here stay far from
\* 2^64 calls.
AtomicAdd(rr) == [rr |-> [rr EXCEPT !.current = @ + 1], new |-> rr.current + 1]

\* A selection that starts the round at the second URL.
URLAtNext(urls, current) == urls[((current + 1) % Len(urls)) + 1]

\* index := int(current % uint64(len(rr.urls))); rr.urls[index]
URLAt(urls, current) == urls[(current % Len(urls)) + 1]

\* GetNext: "" for an empty list; otherwise the URL at (counter - 1) mod n,
\* the counter being taken and incremented in one atomic step.
GetNext(rr) ==
    LET a == AtomicAdd(rr)
        current == a.new - 1
    IN IF Len(rr.urls) = 0 THEN [rr |-> rr, url |-> ""]
       ELSE [rr |-> a.rr, url |-> URLAt(rr.urls, current)]

\* A manager that reads the URL the balancer is at and leaves its counter.
GetNextURLWithoutAdvancing(lbs, key) ==
    IF ~Has(lbs, key) THEN [lbs |-> lbs, url |-> "", found |-> FALSE]
    ELSE LET n == GetNext(lbs[key]) IN
         [lbs |-> lbs, url |-> n.url, found |-> n.url # ""]

\* LoadBalancerManager.GetNextURL: (url, found) and the balancers afterwards.
GetNextURL(lbs, key) ==
    IF ~Has(lbs, key) THEN [lbs |-> lbs, url |-> "", found |-> FALSE]
    ELSE LET n == GetNext(lbs[key]) IN
         [lbs |-> [lbs EXCEPT ![key] = n.rr], url |-> n.url, found |-> n.url # ""]

\* One balancer called by several goroutines: each call takes the read lock,
\* adds to the counter, and returns the URL at the index it computed.

\* number of GetNext calls in one behaviour
NumCalls == 4

\* largest number of URLs of a balancer
MaxURLs == 3

\* The URL lists a balancer is made with: distinct URLs, or none.
URLLists == {[k \in 1..n |-> <<"https://api.example", k>>] : n \in 0..MaxURLs}

InitLB ==
    /\ revision = "current"
    /\ redis = EmptyMap
    /\ pgLLM = EmptyMap
    /\ pgEmb = EmptyMap
    /\ ret = NoCall("", "")
    /\ upserted = NoUpsert
    /\ reqs = <<>>
    /\ received = 0
    /\ embCache = EmptyMap
    /\ ipLimiters = EmptyMap
    /\ limiters = EmptyMap
    /\ now = 0
    /\ passes = EmptyMap
    /\ \E urls \in URLLists :
          balancers = [key \in {"model"} |-> NewRoundRobinLoadBalancer(urls)]

\* The calls in progress.
Running == {k \in 1..Len(reqs) : reqs[k].pc # "returned"}

\* GetNext is called: rr.mu.RLock(), which readers never wait for. The call
\* is alone when no other call is in progress.
LBCall ==
    /\ Len(reqs) < NumCalls
    /\ reqs' = [k \in 1..Len(reqs) |->
                   IF k \in Running THEN [reqs[k] EXCEPT !.alone = FALSE] ELSE reqs[k]]
                \o <<[pc |-> "locked", got |-> 0, url |-> "", alone |-> Running = {}]>>
    /\ UNCHANGED <<revision, redis, pgLLM, pgEmb, ret, upserted, embCache, received,
                   gateVars>>

\* The length check, and the atomic addition.
LBAdd(k) ==
    /\ reqs[k].pc = "locked"
    /\ LET rr == balancers["model"]
           a == AtomicAdd(rr)
       IN IF Len(rr.urls) = 0
          THEN /\ reqs' = [reqs EXCEPT ![k].pc = "returned"]
               /\ balancers' = balancers
          ELSE /\ reqs' = [reqs EXCEPT ![k].pc = "added", ![k].got = a.new - 1]
               /\ balancers' = [balancers EXCEPT !["model"] = a.rr]
    /\ UNCHANGED <<revision, redis, pgLLM, pgEmb, ret, upserted, embCache, received,
                   ipLimiters, limiters, now, passes>>

\* The index is computed and the URL returned.
LBReturn(k) ==
    /\ reqs[k].pc = "added"
    /\ reqs' = [reqs EXCEPT ![k].pc = "returned",
                            ![k].url = URLAt(balancers["model"].urls, reqs[k].got)]
    /\ UNCHANGED <<revision, redis, pgLLM, pgEmb, ret, upserted, embCache, received,
                   gateVars>>

NextLB ==
    \/ LBCall
    \/ \E k \in 1..Len(reqs) : LBAdd(k)
    \/ \E k \in 1..Len(reqs) : LBReturn(k)

SpecLB == InitLB /\ [][NextLB]_vars

\* C17: as long as the calls to GetNext are taken one after another, the
\* i-th call (from 0) on a balancer with n > 0 URLs returns urls[i mod n];
\* on a balancer without URLs every call returns "".
C17_RoundRobinOrder ==
    LET urls == balancers["model"].urls IN
    /\ (\A k \in 1..Len(reqs) : reqs[k].alone) =>
          \A k \in 1..Len(reqs) :
             (reqs[k].pc = "returned" /\ Len(urls) > 0) =>
                 reqs[k].url = urls[((k - 1) % Len(urls)) + 1]
    /\ \A k \in 1..Len(reqs) :
          (reqs[k].pc = "returned" /\ Len(urls) = 0) => reqs[k].url = ""

\* Four calls were taken one after another on three URLs: the fourth
\* returned the first URL again.
C17_Witness ==
    /\ Len(reqs) = 4
    /\ Len(balancers["model"].urls) = 3
    /\ \A k \in 1..4 : reqs[k].alone /\ reqs[k].pc = "returned"
    /\ reqs[4].url = balancers["model"].urls[1]

\* C18: calls that run concurrently obtain distinct counter values, and
\* when k*n calls on n URLs have all returned, each URL was returned exactly
\* k times, whatever the interleaving.
C18_ConcurrentCallsSpreadEvenly ==
    LET urls == balancers["model"].urls
        n == Len(urls)
        counted == {k \in 1..Len(reqs) : reqs[k].pc \in {"added", "returned"}}
    IN n > 0 =>
        /\ \A a, b \in counted : reqs[a].got = reqs[b].got => a = b
        /\ (Running = {} /\ Len(reqs) % n = 0) =>
              \A j \in 1..n :
                 Cardinality({k \in 1..Len(reqs) : reqs[k].url = urls[j]}) =
                    Len(reqs) \div n

\* Four calls overlapped on two URLs, the later call overtook the earlier
\* one at the counter, and all have returned.
C18_Witness ==
    /\ Len(reqs) = 4
    /\ Len(balancers["model"].urls) = 2
    /\ Running = {}
    /\ \A k \in 1..4 : ~reqs[k].alone
    /\ reqs[2].got < reqs[1].got

-----------------------------------------------------------------------------
(* Handler.ServeHTTP step by step: the rate-limit gate, the path check, the   *)
(* cache pre-phases, the reverse proxy's director, the round trip to the      *)
(* upstream, modifyResponse, and the copy of the response to the client       *)

\* number of requests the proxy receives in one behaviour
NumHandlerRequests == 3

\* Config.TargetMap: the paths the proxy serves and their base URLs.
TargetMap ==
    [path \in {"/chat/completions", "/v1/embeddings", "/models"} |->
        "https://default.example"]

\* Config.ModelRoutes: the models with several URLs.
ModelRoutes == [model \in {"gpt-4"} |-> <<"https://a.example", "https://b.example">>]

\* The model an embeddings request names; it has no route of its own.
EmbeddingModel == "text-embedding"

\* shouldUseEmbeddingCache for a POST without the bypass header, storage
\* configured: strings.Contains(path, "embeddings").
ShouldUseEmbeddingCache(path) == path \in {"/v1/embeddings", "/embeddings"}

\* ModelSpecifyStrategy.ShouldApply
ModelSpecifyShouldApply(path) ==
    path = "/chat/completions" \/ path \in {"/v1/embeddings", "/embeddings"}

\* The bodies of the routed requests: none at all, a text that is not JSON,
\* or a JSON object with the members given.
NoBody == [kind |-> "empty", members |-> EmptyMap]

NotJSON == [kind |-> "text", members |-> EmptyMap]

JSONBody(members) == [kind |-> "json", members |-> members]

ModelMember(model) == [k \in {"model"} |-> model]

RouteBodies ==
    { NoBody, NotJSON, JSONBody(EmptyMap), JSONBody(ModelMember("")),
      JSONBody(ModelMember("gpt-4")), JSONBody(ModelMember("other")) }

\* The requests that reach the director: ServeHTTP has answered 404 to every
\* path outside TargetMap.
RouteRequests == [path : DOMAIN TargetMap, body : RouteBodies]

\* json.NewDecoder(tee).Decode(&chatReq): io.EOF on an empty body, a syntax
\* error on a text that is not JSON; a member that is absent leaves Model "".
DecodeChatRequest(body) ==
    CASE body.kind = "empty" -> [model |-> "", err |-> "EOF"]
      [] body.kind = "text"  -> [model |-> "", err |-> "invalid character"]
      [] OTHER -> [model |-> IF Has(body.members, "model")
                             THEN body.members["model"] ELSE "",
                   err |-> NoErr]

\* ModelSpecifyStrategy.extractModelFromRequest: the model, the error, and
\* what is left to read of the request body afterwards. The decoder reads the
\* body through a tee; the body is put back from the tee's buffer once the
\* decoding has succeeded, and not when it has failed.
extractModelFromRequest(body) ==
    LET d == DecodeChatRequest(body) IN
    IF d.err # NoErr THEN [model |-> "", err |-> d.err, left |-> "none"]
    ELSE IF d.model = ""
    THEN [model |-> "", err |-> "model field is required", left |-> "whole"]
    ELSE [model |-> d.model, err |-> NoErr, left |-> "whole"]

\* utils.GetTargetURLWithCache: url.Parse(baseURL).JoinPath(path). The cache
\* in front of it returns what the computation returns.
GetTargetURLWithCache(baseURL, path) ==
    [url |-> [base |-> baseURL, path |-> path], err |-> NoErr]

\* A routing that never asks the load-balancer manager.
getLoadBalancedURLIgnoringBalancer(lbs, model, fallbackURL) ==
    [lbs |-> lbs, url |-> fallbackURL]

\* ModelSpecifyStrategy.getLoadBalancedURL: the balancer's next URL for the
\* model when the manager has one, else the fallback URL.
getLoadBalancedURL(lbs, model, fallbackURL) ==
    LET n == GetNextURL(lbs, model) IN
    IF n.found THEN [lbs |-> n.lbs, url |-> n.url]
    ELSE [lbs |-> n.lbs, url |-> fallbackURL]

\* ModelSpecifyStrategy.GetTargetURL. In the revision of stratgy.go a failure
\* of extractModelFromRequest is returned to the caller; in the revision of
\* part_013 it is logged and the base URL of the path is used.
ModelSpecifyGetTargetURL(rev, lbs, q, baseURL) ==
    LET x == extractModelFromRequest(q.body)
        g == getLoadBalancedURL(lbs, x.model, baseURL)
        t == GetTargetURLWithCache(g.url, q.path)
        f == GetTargetURLWithCache(baseURL, q.path)
    IN IF x.err # NoErr
       THEN IF rev = "part_013"
            THEN [lbs |-> lbs, url |-> f.url, err |-> f.err, left |-> x.left]
            ELSE [lbs |-> lbs, url |-> Nil, err |-> x.err, left |-> x.left]
       ELSE [lbs |-> g.lbs, url |-> t.url, err |-> t.err, left |-> x.left]

\* DefaultStrategy.GetTargetURL
DefaultGetTargetURL(lbs, q, baseURL) ==
    LET t == GetTargetURLWithCache(baseURL, q.path) IN
    [lbs |-> lbs, url |-> t.url, err |-> t.err, left |-> "whole"]

\* Handler.getTargetURL: the first strategy that applies decides, the
\* ModelSpecifyStrategy before the DefaultStrategy, which applies to every
\* path; a strategy's error gives (nil, false).
getTargetURL(rev, lbs, q) ==
    LET base == TargetMap[q.path]
        t == IF ModelSpecifyShouldApply(q.path)
             THEN ModelSpecifyGetTargetURL(rev, lbs, q, base)
             ELSE DefaultGetTargetURL(lbs, q, base)
    IN [lbs |-> t.lbs, url |-> t.url, ok |-> t.err = NoErr, left |-> t.left]

\* The peers that name the client in X-Real-IP.
FrontedPeers == {p \in Peers : p.xRealIP # ""}

\* A request as the server reads it: the peer it comes from, the path and the
\* host of its request target (the host is "" in origin form, as clients of
\* a server send it), its X-Request-ID header, and its body: a chat body, or
\* the "input" member of an embeddings body.
Request(peer, path, body, input) ==
    [peer |-> peer, path |-> path, host |-> "", xRequestID |-> "",
     body |-> body, input |-> input]

\* strings.TrimSpace on the X-Request-ID values clients send here: U+00A0 is
\* white space to it, and is not trimmed when the server reads the header.
TrimSpace(v) ==
    CASE v = "U+00A0 abc" -> "abc"
      [] v = "U+00A0" -> ""
      [] OTHER -> v

\* uuid.New().String() for the request on connection n: a value no other
\* request in flight has (nothing is kept of a request once it has returned).
NewUUID(n) == "uuid-" \o ToString(n)

\* utils.GetOrGenerateRequestID: the ID returned and the X-Request-ID header
\* of the request afterwards; the header is set only when the trimmed value
\* is empty.
GetOrGenerateRequestID(header, n) ==
    LET requestId == TrimSpace(header) IN
    IF requestId = "" THEN [id |-> NewUUID(n), header |-> NewUUID(n)]
    ELSE [id |-> requestId, header |-> header]

\* utils.GetRequestID: the X-Request-ID header of the request.
GetRequestID(e) == e.header

\* The requests clients send. From a fronted peer: a cacheable chat
\* completion; an embeddings request for one text or for two. From either
\* peer: a request to a path that is served and not cached; a request to a
\* path that is not served.
HandlerRequests ==
    {Request(p, "/chat/completions", ChatBody(1, "gpt-4", "absent"), Nil) :
        p \in FrontedPeers} \cup
    {Request(p, "/v1/embeddings", Nil, in) :
        p \in FrontedPeers,
        in \in {[wasArray |-> FALSE, values |-> <<"a">>],
                [wasArray |-> TRUE, values |-> <<"a", "b">>]}} \cup
    {Request(p, path, Nil, Nil) : p \in Peers, path \in {"/models", "/unknown"}}

\* The requests among them that no cache handles.
UncachedRequests == {q \in HandlerRequests : q.path \in {"/models", "/unknown"}}

\* What the upstream answers to a request the caches did not rewrite.
HandlerUpstreamResponses ==
    { UpstreamResponse(200, 1, "compact", ""),
      UpstreamResponse(200, 0, "nil", ""),
      UpstreamResponse(500, 0, "compact", "") }

\* The request context: the scope whose cancellation ends it ("client" for
\* the context of the incoming request, "background" for one made from
\* context.Background()), its deadline in seconds (0 for none), and the
\* values attached to it by key.
ClientContext == [root |-> "client", deadline |-> 0, values |-> EmptyMap]

\* type cacheContextKey struct{}: every value of the type equals every other,
\* so the two package variables are one and the same key.
CacheContextKey == "cacheContextKey{}"

llmCacheContextKey == CacheContextKey

embeddingCacheContextKey == CacheContextKey

\* deadline of the upstream exchange, in seconds
UpstreamDeadline == 900

\* context.WithValue(ctx, key, v)
WithValue(ctx, key, v) == [ctx EXCEPT !.values = Put(@, key, v)]

\* ctx.Value(key), nil when absent
Value(ctx, key) == IF Has(ctx.values, key) THEN ctx.values[key] ELSE Nil

\* The *llmCacheMetadata and *embeddingCacheMetadata the pre-phases attach.
LLMCacheMetadata == [type |-> "llmCacheMetadata", stream |-> FALSE]

EmbeddingCacheMetadata == [type |-> "embeddingCacheMetadata"]

\* A director that makes the new context and carries nothing over.
DirectorContextWithoutValues(ctx) ==
    [root |-> "background", deadline |-> UpstreamDeadline, values |-> EmptyMap]

\* director: a context made from context.Background() with a 900-second
\* timeout, to which the value under llmCacheContextKey is carried over.
DirectorContext(ctx) ==
    LET newCtx == [root |-> "background", deadline |-> UpstreamDeadline,
                   values |-> EmptyMap]
        meta == Value(ctx, llmCacheContextKey)
    IN IF meta # Nil THEN WithValue(newCtx, llmCacheContextKey, meta) ELSE newCtx

\* modifyResponse: the post-phase chosen from the context of the upstream
\* request, by type assertion on the value found under each key.
ModifyResponseMeta(ctx) ==
    LET l == Value(ctx, llmCacheContextKey)
        m == Value(ctx, embeddingCacheContextKey)
    IN IF l # Nil /\ l.type = "llmCacheMetadata" /\ ~l.stream THEN "llm"
       ELSE IF m # Nil /\ m.type = "embeddingCacheMetadata" THEN "emb"
       ELSE "none"

\* The context is done: its scope was cancelled. (The expiry of the deadline
\* is a failure of the round trip.)
Done(ctx, gone) == ctx.root = "client" /\ gone

\* A connection with no request in flight.
HIdle ==
    [pc |-> "idle", peer |-> Nil, path |-> "", body |-> Nil, input |-> Nil,
     ip |-> "", lim |-> 0, meta |-> "none", hits |-> EmptyMap, misses |-> <<>>,
     forwarded |-> Nil, target |-> "", up |-> Nil, pending |-> Nil,
     status |-> 0, sent |-> Nil, cache |-> "", panicked |-> FALSE, trace |-> <<>>,
     ctx |-> ClientContext, gone |-> FALSE,
     host |-> "", header |-> "", requestId |-> "", respId |-> "", left |-> "",
     err |-> ""]

\* The bodies of http.Error(w, "Too Many Requests", 429) and http.NotFound.
TooManyRequests == [doc |-> 0, fmt |-> "text", enc |-> "429"]

NotFound == [doc |-> 0, fmt |-> "text", enc |-> "404"]

\* n times the event ev.
Repeat(ev, n) == [k \in 1..n |-> ev]

InitHandler ==
    /\ revision = "current"
    /\ redis = EmptyMap
    /\ pgLLM = EmptyMap
    /\ pgEmb = EmptyMap
    /\ ret = NoCall("", "")
    /\ upserted = NoUpsert
    /\ reqs = [c \in Connections |-> HIdle]
    /\ received = 0
    /\ \E seeded \in SUBSET {"a"} : embCache = [v \in seeded |-> Seeded(v)]
    /\ ipLimiters = EmptyMap
    /\ limiters = EmptyMap
    /\ now = 0
    /\ passes = [ip \in ClientIPs |-> [t \in 0..MaxTicks |-> 0]]
    /\ balancers = [model \in DOMAIN ModelRoutes |->
                       NewRoundRobinLoadBalancer(ModelRoutes[model])]

\* ServeHTTP begins: GetOrGenerateRequestID, GetClientIP, and getIPLimiter
\* up to its Load; when the map has no limiter for the IP, a new one is made,
\* still to be stored.
HReceive(i, requests) ==
    /\ reqs[i].pc = "idle"
    /\ received < NumHandlerRequests
    /\ received' = received + 1
    /\ \E q \in requests :
          LET ip == GetClientIP(q.peer)
              id == Cardinality(DOMAIN limiters) + 1
              g == GetOrGenerateRequestID(q.xRequestID, i)
              arrived == [HIdle EXCEPT !.peer = q.peer, !.path = q.path,
                                       !.body = q.body, !.input = q.input, !.ip = ip,
                                       !.host = q.host, !.header = g.header,
                                       !.requestId = g.id]
          IN IF Has(ipLimiters, ip)
             THEN /\ reqs' = [reqs EXCEPT ![i] =
                        [arrived EXCEPT !.pc = "allow", !.lim = ipLimiters[ip]]]
                  /\ limiters' = limiters
             ELSE /\ reqs' = [reqs EXCEPT ![i] =
                        [arrived EXCEPT !.pc = "store", !.lim = id]]
                  /\ limiters' = Put(limiters, id, NewLimiter(ip))
    /\ UNCHANGED <<revision, redis, pgLLM, pgEmb, ret, upserted, embCache,
                   ipLimiters, now, passes, balancers>>

\* getIPLimiter: h.ipLimiters.Store(ip, limiter), and return limiter.
HStoreLimiter(i) ==
    /\ reqs[i].pc = "store"
    /\ ipLimiters' = Put(ipLimiters, reqs[i].ip, reqs[i].lim)
    /\ reqs' = [reqs EXCEPT ![i].pc = "allow"]
    /\ UNCHANGED <<revision, redis, pgLLM, pgEmb, ret, upserted, embCache, received,
                   limiters, now, passes, balancers>>

\* A gate that answers 429 to a denied request and goes on serving it.
HAllowWithoutReturn(i) ==
    /\ reqs[i].pc = "allow"
    /\ LET e == reqs[i]
           a == Allow(limiters[e.lim], now)
       IN /\ limiters' = [limiters EXCEPT ![e.lim] = a.bucket]
          /\ IF a.ok
             THEN /\ reqs' = [reqs EXCEPT ![i].pc = "serve"]
                  /\ passes' = [passes EXCEPT ![e.ip][now] = @ + 1]
             ELSE /\ reqs' = [reqs EXCEPT ![i] =
                        [e EXCEPT !.pc = "serve", !.status = 429,
                                  !.sent = TooManyRequests,
                                  !.trace = @ \o <<"write">>]]
                  /\ passes' = passes
    /\ UNCHANGED <<revision, redis, pgLLM, pgEmb, ret, upserted, embCache, received,
                   ipLimiters, now, balancers>>

\* limiter.Allow(): a denied request is answered 429 and ServeHTTP returns.
HAllow(i) ==
    /\ reqs[i].pc = "allow"
    /\ LET e == reqs[i]
           a == Allow(limiters[e.lim], now)
       IN /\ limiters' = [limiters EXCEPT ![e.lim] = a.bucket]
          /\ IF a.ok
             THEN /\ reqs' = [reqs EXCEPT ![i].pc = "serve"]
                  /\ passes' = [passes EXCEPT ![e.ip][now] = @ + 1]
             ELSE /\ reqs' = [reqs EXCEPT ![i] =
                        [e EXCEPT !.pc = "done", !.status = 429,
                                  !.sent = TooManyRequests,
                                  !.trace = @ \o <<"write">>]]
                  /\ passes' = passes
    /\ UNCHANGED <<revision, redis, pgLLM, pgEmb, ret, upserted, embCache, received,
                   ipLimiters, now, balancers>>

\* handleEmbeddingCachePreProxy up to its lookups: the body is a JSON object
\* with a model, and its "input" is a string or a non-empty array of strings.
EmbeddingBodyValidates(e) ==
    /\ e.body = Nil
    /\ Has(e.input, "values")
    /\ Len(e.input.values) > 0

\* ServeHTTP from the path check to the hand-over to the reverse proxy: a path
\* outside TargetMap is answered 404; the embedding pre-phase, then the LLM
\* pre-phase, answer the request from the cache, leave their metadata, or
\* leave the request alone when its body is not one they can use.
HServe(i) ==
    /\ reqs[i].pc = "serve"
    /\ LET e == reqs[i] IN
       IF ~Has(TargetMap, e.path)
       THEN /\ reqs' = [reqs EXCEPT ![i] =
                  [e EXCEPT !.pc = "done", !.status = 404, !.sent = NotFound,
                            !.trace = @ \o <<"write">>]]
            /\ redis' = redis
       ELSE IF ShouldUseEmbeddingCache(e.path) /\ ~EmbeddingBodyValidates(e)
       THEN /\ reqs' = [reqs EXCEPT ![i].pc = "director"]
            /\ redis' = redis
       ELSE IF ShouldUseEmbeddingCache(e.path)
       THEN LET pre == HandleEmbeddingCachePreProxy(embCache, e.input, 0)
                lookups == Repeat("lookup", Len(e.input.values))
            IN /\ reqs' = [reqs EXCEPT ![i] =
                     IF pre.handled
                     THEN [e EXCEPT !.pc = "done", !.status = 200,
                                    !.sent = pre.written, !.cache = pre.header,
                                    !.hits = pre.hits,
                                    !.trace = @ \o lookups \o <<"header", "write">>]
                     ELSE [e EXCEPT !.pc = "director", !.meta = "emb",
                                    !.ctx = WithValue(@, embeddingCacheContextKey,
                                                      EmbeddingCacheMetadata),
                                    !.hits = pre.hits, !.misses = pre.misses,
                                    !.forwarded = pre.forwarded,
                                    !.trace = @ \o lookups \o <<"rewrite">>]]
               /\ redis' = redis
       ELSE IF e.path = "/chat/completions" /\ ShouldUseLLMCache("")
       THEN \E pick \in RowChoices(pgLLM, MakeHash(e.body)) :
               LET pre == HandleLLMCachePreProxy(redis, pgLLM, e.body, NoFailure, pick)
               IN /\ reqs' = [reqs EXCEPT ![i] =
                        IF pre.handled
                        THEN [e EXCEPT !.pc = "done", !.status = 200,
                                       !.sent = pre.written, !.cache = "HIT",
                                       !.trace = @ \o <<"lookup", "header", "write">>]
                        ELSE [e EXCEPT !.pc = "director",
                                       !.meta = IF pre.meta THEN "llm" ELSE "none",
                                       !.ctx = IF pre.meta
                                               THEN WithValue(@, llmCacheContextKey,
                                                              LLMCacheMetadata)
                                               ELSE @,
                                       !.trace = @ \o <<"lookup">>]]
                  /\ redis' = pre.redis
       ELSE /\ reqs' = [reqs EXCEPT ![i].pc = "director"]
            /\ redis' = redis
    /\ UNCHANGED <<revision, pgLLM, pgEmb, ret, upserted, embCache, received, gateVars>>

\* The body of a request as extractModelFromRequest finds it: the pre-phases
\* have put back what they read.
RouteBody(e) ==
    IF e.body # Nil
    THEN IF e.body.json THEN JSONBody(ModelMember(e.body.model)) ELSE NotJSON
    ELSE IF e.input # Nil THEN JSONBody(ModelMember(EmbeddingModel))
    ELSE NoBody

\* The reverse proxy calls the director. When getTargetURL gives a URL (through
\* the model's load balancer when it has one) the request gets the upstream
\* context and that URL; when it gives none, the director returns and the
\* request keeps the context and the URL it came with. The reverse proxy then
\* hands the request to the transport.
HDirector(i) ==
    /\ reqs[i].pc = "director"
    /\ LET e == reqs[i]
           t == getTargetURL(revision, balancers,
                             [path |-> e.path, body |-> RouteBody(e)])
       IN /\ balancers' = t.lbs
          /\ reqs' = [reqs EXCEPT ![i] =
                IF t.ok
                THEN [e EXCEPT !.pc = "awaiting", !.target = t.url.base,
                               !.left = t.left,
                               !.ctx = DirectorContext(@),
                               !.trace = @ \o (IF t.lbs # balancers
                                               THEN <<"select", "dispatch">>
                                               ELSE <<"dispatch">>)]
                ELSE [e EXCEPT !.pc = "awaiting", !.target = e.host,
                               !.left = t.left,
                               !.trace = @ \o <<"routeFailed">>]]
    /\ UNCHANGED <<revision, redis, pgLLM, pgEmb, ret, upserted, embCache, received,
                   ipLimiters, limiters, now, passes>>

\* The upstream answers and the reverse proxy runs modifyResponse: the LLM or
\* the embedding post-phase when the context of the upstream request carries
\* cache metadata. An error of the post-phase makes errorHandler answer 502.
\* A round trip whose context is done does not get here, nor does the round
\* trip of a URL without a host, which the transport refuses.
HRespond(i) ==
    /\ reqs[i].pc = "awaiting"
    /\ ~Done(reqs[i].ctx, reqs[i].gone)
    /\ reqs[i].target # ""
    /\ LET e == reqs[i]
           meta == ModifyResponseMeta(e.ctx)
       IN
       IF ShouldUseEmbeddingCache(e.path) /\ e.forwarded # Nil
       THEN \E up \in UpstreamEmbeddings(e.forwarded.values) :
               LET post == HandleEmbeddingCachePostResponse(
                               embCache, Len(e.input.values), e.hits, e.misses, up, {})
               IN IF meta # "emb"
                  THEN /\ reqs' = [reqs EXCEPT ![i] =
                             [e EXCEPT !.pc = "write", !.up = up,
                                 !.pending = [status |-> up.status, body |-> RawBody(up),
                                              cache |-> "", id |-> GetRequestID(e)]]]
                       /\ UNCHANGED <<redis, pgLLM, embCache>>
                  ELSE
                  /\ reqs' = [reqs EXCEPT ![i] =
                        IF post.err
                        THEN [e EXCEPT !.pc = "done", !.up = up, !.status = 502,
                                       !.sent = BadGateway,
                                       !.trace = @ \o <<"write">>]
                        ELSE IF post.panic
                        THEN [e EXCEPT !.pc = "done", !.up = up, !.panicked = TRUE]
                        ELSE [e EXCEPT !.pc = "write", !.up = up,
                                 !.pending = [status |-> up.status, body |-> post.sent,
                                              cache |-> post.header,
                                              id |-> GetRequestID(e)],
                                 !.trace = @ \o
                                    (IF up.status # 200 \/ up.kind = "nil"
                                     THEN <<"header">>
                                     ELSE Repeat("persist", Cardinality(post.attempted))
                                          \o <<"replace", "header">>)]]
                  /\ embCache' = IF post.err \/ post.panic THEN embCache ELSE post.cache
                  /\ UNCHANGED <<redis, pgLLM>>
       ELSE \E up \in HandlerUpstreamResponses :
               LET post == HandleLLMCachePostResponse(redis, pgLLM, e.body, up, NoFailure)
                   body == [doc |-> up.doc, fmt |-> up.fmt, enc |-> up.enc]
               IN IF meta = "llm"
                  THEN /\ reqs' = [reqs EXCEPT ![i] =
                             [e EXCEPT !.pc = "write", !.up = up,
                                 !.pending = [status |-> up.status, body |-> body,
                                              cache |-> post.cache,
                                              id |-> GetRequestID(e)],
                                 !.trace = @ \o
                                    (IF post.cache = "" THEN <<>>
                                     ELSE IF post.stored = "skipped"
                                     THEN <<"header", "replace">>
                                     ELSE <<"header", "replace", "persist">>)]]
                       /\ redis' = post.redis
                       /\ pgLLM' = post.table
                       /\ embCache' = embCache
                  ELSE /\ reqs' = [reqs EXCEPT ![i] =
                             [e EXCEPT !.pc = "write", !.up = up,
                                 !.pending = [status |-> up.status, body |-> body,
                                              cache |-> "", id |-> GetRequestID(e)]]]
                       /\ UNCHANGED <<redis, pgLLM, embCache>>
    /\ UNCHANGED <<revision, pgEmb, ret, upserted, received, gateVars>>

\* The errors RoundTrip can return for a request: the transport refuses a
\* URL without a scheme and a host; otherwise the connection or the exchange
\* fails, the deadline of the request's context expires, or that context is
\* cancelled.
RoundTripErrors(e) ==
    IF e.target = "" THEN {"unsupported protocol scheme"}
    ELSE {"connection refused"} \cup
         (IF e.ctx.deadline > 0 THEN {"context deadline exceeded"} ELSE {}) \cup
         (IF Done(e.ctx, e.gone) THEN {"context canceled"} ELSE {})

\* The body of http.Error(w, "Gateway Timeout", 504).
GatewayTimeout == [doc |-> 0, fmt |-> "text", enc |-> "504"]

\* An error handler that tells an expired deadline from other failures.
errorHandlerByKind(err) ==
    IF err = "context deadline exceeded"
    THEN [status |-> 504, body |-> GatewayTimeout]
    ELSE [status |-> 502, body |-> BadGateway]

\* errorHandler: the error decides what is logged; the answer is
\* http.Error(w, "Bad Gateway", 502) in every case.
errorHandler(err) == [status |-> 502, body |-> BadGateway]

\* The round trip to the upstream fails: RoundTrip returns the error without
\* a response, and the reverse proxy calls errorHandler.
HRoundTripError(i) ==
    /\ reqs[i].pc = "awaiting"
    /\ \E err \in RoundTripErrors(reqs[i]) :
          reqs' = [reqs EXCEPT ![i] =
             [@ EXCEPT !.pc = "done", !.err = err,
                       !.status = errorHandler(err).status,
                       !.sent = errorHandler(err).body,
                       !.trace = @ \o <<"write">>]]
    /\ UNCHANGED <<revision, redis, pgLLM, pgEmb, ret, upserted, embCache, received,
                   gateVars>>

\* The upstream sends an interim (1xx) response before its final one: the
\* reverse proxy passes it on to the client as it arrives, during the round
\* trip.
HInterim(i) ==
    /\ reqs[i].pc = "awaiting"
    /\ \A k \in 1..Len(reqs[i].trace) : reqs[i].trace[k] # "writeInterim"
    /\ reqs' = [reqs EXCEPT ![i].trace = @ \o <<"writeInterim">>]
    /\ UNCHANGED <<revision, redis, pgLLM, pgEmb, ret, upserted, embCache, received,
                   gateVars>>

\* A reverse proxy that copies the upstream's response to the client as soon
\* as it arrives, before modifyResponse has run.
HWriteOnArrival(i) ==
    /\ reqs[i].pc = "awaiting"
    /\ \A k \in 1..Len(reqs[i].trace) : reqs[i].trace[k] # "writeHeader"
    /\ reqs' = [reqs EXCEPT ![i].trace = @ \o <<"writeHeader", "writeBody">>]
    /\ UNCHANGED <<revision, redis, pgLLM, pgEmb, ret, upserted, embCache, received,
                   gateVars>>

\* The reverse proxy copies the response modifyResponse left to the client:
\* the headers and the status first, then the body.
HWrite(i) ==
    /\ reqs[i].pc = "write"
    /\ LET e == reqs[i] IN
       reqs' = [reqs EXCEPT ![i] =
          IF e.gone
          THEN [e EXCEPT !.pc = "done", !.trace = @ \o <<"writeFailed">>]
          ELSE [e EXCEPT !.pc = "done", !.status = e.pending.status,
                         !.sent = e.pending.body, !.cache = e.pending.cache,
                         !.respId = e.pending.id,
                         !.trace = @ \o <<"writeHeader", "writeBody">>]]
    /\ UNCHANGED <<revision, redis, pgLLM, pgEmb, ret, upserted, embCache, received,
                   gateVars>>

\* The client disconnects while its request is with the reverse proxy: the
\* context of the incoming request is cancelled.
HDisconnect(i) ==
    /\ reqs[i].pc \in {"director", "awaiting", "write"}
    /\ ~reqs[i].gone
    /\ reqs' = [reqs EXCEPT ![i].gone = TRUE]
    /\ UNCHANGED <<revision, redis, pgLLM, pgEmb, ret, upserted, embCache, received,
                   gateVars>>

\* ServeHTTP returns: the handler keeps nothing of a finished request.
HReturn(i) ==
    /\ reqs[i].pc = "done"
    /\ reqs' = [reqs EXCEPT ![i] = HIdle]
    /\ UNCHANGED <<revision, redis, pgLLM, pgEmb, ret, upserted, embCache, received,
                   gateVars>>

\* Time passes.
Tick ==
    /\ now < MaxTicks
    /\ now' = now + 1
    /\ UNCHANGED <<revision, redis, pgLLM, pgEmb, ret, upserted, reqs, embCache,
                   received, ipLimiters, limiters, passes, balancers>>

\* The proxy serving requests of every kind that arrive within one tick.
NextHandler ==
    \/ \E i \in Connections : HReceive(i, HandlerRequests)
    \/ \E i \in Connections : HStoreLimiter(i)
    \/ \E i \in Connections : HAllow(i)
    \/ \E i \in Connections : HServe(i)
    \/ \E i \in Connections : HDirector(i)
    \/ \E i \in Connections : HRespond(i)
    \/ \E i \in Connections : HInterim(i)
    \/ \E i \in Connections : HRoundTripError(i)
    \/ \E i \in Connections : HWrite(i)
    \/ \E i \in Connections : HReturn(i)

SpecHandler == InitHandler /\ [][NextHandler]_vars

\* The proxy serving uncached requests while time passes.
NextGate ==
    \/ \E i \in Connections : HReceive(i, UncachedRequests)
    \/ \E i \in Connections : HStoreLimiter(i)
    \/ \E i \in Connections : HAllow(i)
    \/ \E i \in Connections : HServe(i)
    \/ \E i \in Connections : HDirector(i)
    \/ \E i \in Connections : HRespond(i)
    \/ \E i \in Connections : HRoundTripError(i)
    \/ \E i \in Connections : HWrite(i)
    \/ \E i \in Connections : HReturn(i)
    \/ Tick

SpecGate == InitHandler /\ [][NextGate]_vars

\* The requests a cache applies to.
CachedRequests == HandlerRequests \ UncachedRequests

\* The proxy serving cached requests whose clients may disconnect.
NextCancel ==
    \/ \E i \in Connections : HReceive(i, CachedRequests)
    \/ \E i \in Connections : HStoreLimiter(i)
    \/ \E i \in Connections : HAllow(i)
    \/ \E i \in Connections : HServe(i)
    \/ \E i \in Connections : HDirector(i)
    \/ \E i \in Connections : HDisconnect(i)
    \/ \E i \in Connections : HRespond(i)
    \/ \E i \in Connections : HRoundTripError(i)
    \/ \E i \in Connections : HWrite(i)
    \/ \E i \in Connections : HReturn(i)

SpecCancel == InitHandler /\ [][NextCancel]_vars

\* Requests of a fronted peer for the embedding of one text, and for a path
\* that is not served.
LiveRequests ==
    {Request(p, "/v1/embeddings", Nil, [wasArray |-> FALSE, values |-> <<"a">>]) :
        p \in FrontedPeers} \cup
    {Request(p, "/unknown", Nil, Nil) : p \in FrontedPeers}

\* The proxy serving such requests.
NextLive ==
    \/ \E i \in Connections : HReceive(i, LiveRequests)
    \/ \E i \in Connections : HStoreLimiter(i)
    \/ \E i \in Connections : HAllow(i)
    \/ \E i \in Connections : HServe(i)
    \/ \E i \in Connections : HDirector(i)
    \/ \E i \in Connections : HRespond(i)
    \/ \E i \in Connections : HRoundTripError(i)
    \/ \E i \in Connections : HWrite(i)
    \/ \E i \in Connections : HReturn(i)

\* The goroutine of a request runs on until ServeHTTP returns: no step of the
\* handler waits for another request, and the round trip ends with a response
\* or, at the deadline of the upstream context at the latest, with an error.
\* Whether another request arrives is up to the clients.
HandlerProgress(i) ==
    \/ HStoreLimiter(i)
    \/ HAllow(i)
    \/ HServe(i)
    \/ HDirector(i)
    \/ HRespond(i)
    \/ HRoundTripError(i)
    \/ HWrite(i)
    \/ HReturn(i)

SpecLive ==
    /\ InitHandler
    /\ [][NextLive]_vars
    /\ \A i \in Connections : WF_vars(HandlerProgress(i))

\* Two connections of one client that reaches the proxy directly: the same
\* IP address, another source port, no X-Real-IP and no X-Forwarded-For.
DirectPeers ==
    { [xRealIP |-> "", xForwardedFor |-> "", remoteAddr |-> "1.2.3.4:50001"],
      [xRealIP |-> "", xForwardedFor |-> "", remoteAddr |-> "1.2.3.4:50002"] }

\* net.SplitHostPort on the addresses of these connections: the IP address
\* of the peer.
RemoteIP(remoteAddr) ==
    CASE remoteAddr = "1.2.3.4:50001" -> "1.2.3.4"
      [] remoteAddr = "1.2.3.4:50002" -> "1.2.3.4"

\* Its requests, to a path that is served and not cached.
DirectRequests == {Request(p, "/models", Nil, Nil) : p \in DirectPeers}

InitDirect ==
    /\ revision = "current"
    /\ redis = EmptyMap
    /\ pgLLM = EmptyMap
    /\ pgEmb = EmptyMap
    /\ ret = NoCall("", "")
    /\ upserted = NoUpsert
    /\ reqs = [c \in Connections |-> HIdle]
    /\ received = 0
    /\ embCache = EmptyMap
    /\ ipLimiters = EmptyMap
    /\ limiters = EmptyMap
    /\ now = 0
    /\ passes = [ip \in {GetClientIP(p) : p \in DirectPeers} |->
                    [t \in 0..MaxTicks |-> 0]]
    /\ balancers = [model \in DOMAIN ModelRoutes |->
                       NewRoundRobinLoadBalancer(ModelRoutes[model])]

\* The proxy serving that client while time passes.
NextDirect ==
    \/ \E i \in Connections : HReceive(i, DirectRequests)
    \/ \E i \in Connections : HStoreLimiter(i)
    \/ \E i \in Connections : HAllow(i)
    \/ \E i \in Connections : HServe(i)
    \/ \E i \in Connections : HDirector(i)
    \/ \E i \in Connections : HRespond(i)
    \/ \E i \in Connections : HRoundTripError(i)
    \/ \E i \in Connections : HWrite(i)
    \/ \E i \in Connections : HReturn(i)
    \/ Tick

SpecDirect == InitDirect /\ [][NextDirect]_vars

\* A body that is not JSON, and an "input" member that is a number.
NotJSONBody == [id |-> 6, json |-> FALSE, model |-> "", stream |-> "absent"]

UnsupportedInput == [type |-> "number"]

\* A host a client names in a request target in absolute form.
ClientChosenHost == "http://client-chosen.example"

\* The requests on served paths that the caches leave alone: a chat body that
\* is not JSON, has a "stream" that is not a boolean, or has no model; an
\* embeddings body that is not JSON or whose input is not made of strings.
\* The request target is in origin form or in absolute form.
SkippedRequests ==
    {[Request(p, path, body, input) EXCEPT !.host = host] :
        p \in FrontedPeers,
        host \in {"", ClientChosenHost},
        path \in {"/chat/completions"},
        body \in {ChatBody(4, "gpt-4", "nonbool"), ChatBody(5, "", "absent"), NotJSONBody},
        input \in {Nil}} \cup
    {[Request(p, path, body, input) EXCEPT !.host = host] :
        p \in FrontedPeers,
        host \in {"", ClientChosenHost},
        path \in {"/v1/embeddings"},
        body \in {Nil},
        input \in {UnsupportedInput}} \cup
    {[Request(p, path, body, input) EXCEPT !.host = host] :
        p \in FrontedPeers,
        host \in {"", ClientChosenHost},
        path \in {"/v1/embeddings"},
        body \in {NotJSONBody},
        input \in {Nil}}

\* The proxy serving requests the caches leave alone.
NextSkip ==
    \/ \E i \in Connections : HReceive(i, SkippedRequests)
    \/ \E i \in Connections : HStoreLimiter(i)
    \/ \E i \in Connections : HAllow(i)
    \/ \E i \in Connections : HServe(i)
    \/ \E i \in Connections : HDirector(i)
    \/ \E i \in Connections : HRespond(i)
    \/ \E i \in Connections : HRoundTripError(i)
    \/ \E i \in Connections : HWrite(i)
    \/ \E i \in Connections : HReturn(i)

SpecSkip == InitHandler /\ [][NextSkip]_vars

\* The X-Request-ID values clients send: none, an ID, and an ID after a
\* no-break space.
XRequestIDs == {"", "abc", "U+00A0 abc"}

\* Requests of a fronted peer with and without an X-Request-ID: a cacheable
\* chat completion, a request to a path that is served and not cached, and a
\* request to a path that is not served.
IdentifiedRequests ==
    {[Request(p, path, body, Nil) EXCEPT !.xRequestID = id] :
        p \in FrontedPeers,
        id \in XRequestIDs,
        path \in {"/chat/completions"},
        body \in {ChatBody(1, "gpt-4", "absent")}} \cup
    {[Request(p, path, Nil, Nil) EXCEPT !.xRequestID = id] :
        p \in FrontedPeers,
        id \in XRequestIDs,
        path \in {"/models", "/unknown"}}

\* The proxy serving requests that may bring their own request ID.
NextIdentified ==
    \/ \E i \in Connections : HReceive(i, IdentifiedRequests)
    \/ \E i \in Connections : HStoreLimiter(i)
    \/ \E i \in Connections : HAllow(i)
    \/ \E i \in Connections : HServe(i)
    \/ \E i \in Connections : HDirector(i)
    \/ \E i \in Connections : HRespond(i)
    \/ \E i \in Connections : HRoundTripError(i)
    \/ \E i \in Connections : HWrite(i)
    \/ \E i \in Connections : HReturn(i)

SpecIdentified == InitHandler /\ [][NextIdentified]_vars

-----------------------------------------------------------------------------
(* Claims about the handler as a whole *)

\* The upstream's response to a request was not a 200 with a body.
NotOKOrNoBody(e) ==
    \/ e.up.status # 200
    \/ IF e.meta = "emb" THEN e.up.kind = "nil" ELSE e.up.fmt = "nil"

\* The body of the upstream's response to a request, as it was received.
ReceivedBody(e) ==
    IF e.meta = "emb" THEN RawBody(e.up)
    ELSE [doc |-> e.up.doc, fmt |-> e.up.fmt, enc |-> e.up.enc]

\* Every record in the caches is a document or a vector that an upstream sent
\* with status 200 (or that the embedding cache started with).
OnlyOKDataStored ==
    /\ \A k \in DOMAIN pgLLM : pgLLM[k].Response.doc \in Docs
    /\ \A key \in DOMAIN redis : redis[key].Response.doc \in Docs
    /\ \A v \in DOMAIN embCache : embCache[v] \in {Seeded(v), Fresh(v)}

\* C14: the step in which modifyResponse sees a response whose status is not
\* 200 or whose body is nil changes no cache and hands the response on with
\* its status and body as received, which is what the client then gets; so
\* the caches only ever hold, and a cache hit only ever replays, data an
\* upstream returned with status 200.
C14_OnlyOKResponsesPersisted ==
    [][/\ OnlyOKDataStored'
       /\ \A i \in Connections :
             LET e == reqs'[i] IN
             /\ (reqs[i].pc = "awaiting" /\ e.up # Nil /\ NotOKOrNoBody(e)) =>
                   /\ redis' = redis /\ pgLLM' = pgLLM /\ embCache' = embCache
                   /\ e.pc = "write"
                   /\ e.pending.status = e.up.status
                   /\ e.pending.body = ReceivedBody(e)
             /\ (reqs[i].pc = "write" /\ e.pc = "done" /\ NotOKOrNoBody(e)) =>
                   /\ redis' = redis /\ pgLLM' = pgLLM /\ embCache' = embCache
                   /\ e.status = e.up.status
                   /\ e.sent = ReceivedBody(e)
             /\ (e.pc = "done" /\ e.cache = "HIT" /\ e.path = "/chat/completions") =>
                   e.sent.doc \in Docs
             /\ (e.pc = "done" /\ e.cache = "HIT" /\ e.meta = "none"
                 /\ e.path = "/v1/embeddings") =>
                   \A k \in 1..Len(e.sent.data) :
                      e.sent.data[k].Embedding[1] \in {"seeded", "upstream"}]_vars

\* An embeddings request got a 500 whose body is in the embeddings format for
\* a text that is not cached, the client received it, and the text is still
\* not cached; and the LLM cache has a row.
C14_Witness ==
    \E i \in Connections :
        LET e == reqs[i] IN
        /\ e.pc = "done" /\ e.meta = "emb" /\ e.up # Nil
        /\ e.up.status = 500 /\ e.up.kind = "list"
        /\ e.status = 500 /\ e.sent = RawBody(e.up)
        /\ e.misses[1].Value \notin DOMAIN embCache
        /\ pgLLM # EmptyMap

\* The number of requests from a client IP that passed the rate limit at the
\* ticks t1..t2.
RECURSIVE PassesBetween(_, _, _)
PassesBetween(ip, t1, t2) ==
    IF t2 < t1 THEN 0 ELSE passes[ip][t2] + PassesBetween(ip, t1, t2 - 1)

\* C15: for every client IP and every interval of time, the requests of that
\* IP that pass the rate limit in the interval number at most burst plus
\* rate times the interval's length (counted here in token units), whether
\* the requests arrive one after another or together.
C15_PassesWithinBurstPlusRate ==
    \A ip \in ClientIPs : \A t1, t2 \in 0..MaxTicks :
        t1 <= t2 =>
            PassesBetween(ip, t1, t2) * TicksPerSecond <=
                RateLimitBurst * TicksPerSecond + RateLimitRate * (t2 - t1)

\* C16: only one token bucket is ever made for a client IP, it is the one
\* the map holds for that IP, and every request attributed to the IP is
\* checked against it.
C16_OneBucketPerClientIP ==
    /\ \A a, b \in DOMAIN limiters : limiters[a].ip = limiters[b].ip => a = b
    /\ \A i, j \in Connections :
          (reqs[i].lim # 0 /\ reqs[j].lim # 0 /\ reqs[i].ip = reqs[j].ip) =>
              reqs[i].lim = reqs[j].lim
    /\ \A i \in Connections :
          (reqs[i].pc \notin {"idle", "store"} /\ Has(ipLimiters, reqs[i].ip)) =>
              reqs[i].lim = ipLimiters[reqs[i].ip]

\* Every event of the first kinds in a trace comes before every event of the
\* second kinds.
AllBefore(trace, early, late) ==
    \A a, b \in 1..Len(trace) :
       (trace[a] \in early /\ trace[b] \in late) => a < b

\* C19: within one request, every pre-phase cache lookup and the rewrite of
\* the request body come before the dispatch to the upstream, and the
\* post-phase (persistence, body replacement, X-*-Cache header) comes
\* before the first header or body byte of the response it worked on is
\* written to the client; a request awaiting the upstream or being written
\* has its pre-phase behind it, and nothing of the response is written while
\* the post-phase has not run.
C19_PhasesOrdered ==
    \A i \in Connections :
       LET e == reqs[i] IN
       /\ AllBefore(e.trace, {"lookup", "rewrite"}, {"dispatch"})
       /\ AllBefore(e.trace, {"dispatch", "persist", "replace"},
                             {"writeHeader", "writeBody"})
       /\ AllBefore(e.trace, {"dispatch"}, {"persist", "replace"})
       /\ \A b \in 1..Len(e.trace) :
             e.trace[b] \in {"writeHeader", "writeBody"} =>
                \A a \in 1..Len(e.trace) : e.trace[a] = "header" => a < b
       /\ e.pc \in {"awaiting", "write"} =>
             /\ \E a \in 1..Len(e.trace) : e.trace[a] = "dispatch"
             /\ \A a \in 1..Len(e.trace) :
                   e.trace[a] \notin {"writeHeader", "writeBody", "write"}
             /\ e.status = 0 /\ e.sent = Nil /\ e.cache = ""
       /\ e.pc = "write" => e.pending # Nil

\* An embeddings request with a cached and a missing input went through
\* both phases: lookups and rewrite, dispatch, an interim response passed
\* on, then persistence, merge and header, and only then the response.
C19_Witness ==
    \E i \in Connections :
       LET e == reqs[i] IN
       /\ e.pc = "done" /\ e.meta = "emb" /\ e.status = 200 /\ e.cache = "PARTIAL"
       /\ \A ev \in {"lookup", "rewrite", "dispatch", "writeInterim", "persist",
                      "replace", "header", "writeHeader", "writeBody"} :
             \E a \in 1..Len(e.trace) : e.trace[a] = ev

\* C20: the step that finds a request denied by its limiter answers 429, the
\* step that finds its path outside TargetMap answers 404, and the request
\* ends there: the step reads and writes no cache, selects no URL from a
\* balancer and dispatches nothing, and ServeHTTP has returned; and a request
\* the handler answered 429 or 404 was denied or had an unknown path.
C20_DeniedAndUnknownEndThere ==
    [][\A i \in Connections :
          reqs'[i] # reqs[i] =>
             LET e == reqs[i]
                 denied == e.pc = "allow" /\ ~Allow(limiters[e.lim], now).ok
                 unknown == e.pc = "serve" /\ ~Has(TargetMap, e.path)
             IN /\ (denied \/ unknown) =>
                      /\ reqs'[i] = [e EXCEPT !.pc = "done",
                                       !.status = IF denied THEN 429 ELSE 404,
                                       !.sent = IF denied THEN TooManyRequests
                                                ELSE NotFound,
                                       !.trace = <<"write">>]
                      /\ e.trace = <<>> /\ e.meta = "none" /\ e.target = ""
                      /\ e.up = Nil /\ e.hits = EmptyMap
                      /\ UNCHANGED <<redis, pgLLM, pgEmb, embCache, balancers>>
                /\ (reqs'[i].status \in {429, 404} /\ e.status = 0) =>
                      (denied \/ unknown)
                /\ e.status \in {429, 404} => reqs'[i] = HIdle]_vars

\* With a response cached for input "a", an embeddings request for it was
\* denied and answered 429 while a request for an unknown path was answered
\* 404: neither looked anything up nor was sent on.
C20_Witness ==
    \E i, j \in Connections :
       /\ Has(embCache, "a")
       /\ reqs[i].pc = "done" /\ reqs[i].status = 429
       /\ reqs[i].path = "/v1/embeddings" /\ reqs[i].trace = <<"write">>
       /\ reqs[j].pc = "done" /\ reqs[j].status = 404
       /\ ~Has(TargetMap, reqs[j].path) /\ reqs[j].trace = <<"write">>

\* C21: a request handed to the upstream has a context made from
\* context.Background() with the 900-second deadline, which the client's
\* disconnecting does not end and which carries the metadata the pre-phase
\* attached; so when the client has gone and the upstream then answers 200,
\* the post-phase of the request runs and the response is persisted.
C21_UpstreamExchangeSurvivesDisconnect ==
    [][\A i \in Connections :
          reqs'[i] # reqs[i] =>
             LET e == reqs[i]
                 n == reqs'[i]
             IN /\ n.pc = "awaiting" =>
                      /\ n.ctx.root = "background"
                      /\ n.ctx.deadline = UpstreamDeadline
                      /\ ~Done(n.ctx, TRUE)
                      /\ ModifyResponseMeta(n.ctx) = n.meta
                /\ (e.pc = "awaiting" /\ n.pc = "awaiting") =>
                      (n.gone /\ n.ctx = e.ctx)
                /\ (e.pc = "awaiting" /\ e.gone /\ n.up # Nil /\ n.up.status = 200) =>
                      /\ (e.meta = "llm" /\ n.up.fmt # "nil") =>
                            /\ n.pc = "write" /\ n.pending.cache = "MISS"
                            /\ \E sr \in StoredResponses(redis', pgLLM', e.body) :
                                  sr.doc = n.up.doc
                      /\ (e.meta = "emb" /\ n.up.kind = "list" /\ ~n.panicked) =>
                            /\ n.pc = "write"
                            /\ n.pending.cache \in {"MISS", "PARTIAL"}
                            /\ \A k \in 1..Len(e.misses) :
                                  e.misses[k].Value # "" =>
                                     /\ Has(embCache', e.misses[k].Value)
                                     /\ embCache'[e.misses[k].Value] =
                                           Fresh(e.misses[k].Value)]_vars

\* Two clients disconnected after their requests were dispatched: the chat
\* response and the embedding of the missing input were persisted all the
\* same, and nothing could be written to either client.
C21_Witness ==
    \E i, j \in Connections :
       /\ reqs[i].pc = "done" /\ reqs[i].gone /\ reqs[i].meta = "llm"
       /\ reqs[i].up # Nil /\ reqs[i].up.status = 200 /\ reqs[i].status = 0
       /\ StoredResponses(redis, pgLLM, reqs[i].body) # {}
       /\ reqs[j].pc = "done" /\ reqs[j].gone /\ reqs[j].meta = "emb"
       /\ reqs[j].up # Nil /\ reqs[j].up.status = 200 /\ reqs[j].status = 0
       /\ Len(reqs[j].misses) > 0
       /\ \A k \in 1..Len(reqs[j].misses) : Has(embCache, reqs[j].misses[k].Value)

\* C26: when a GetEmbedding lookup of the pre-phase returns an error, the
\* X-Embedding-Cache header of the response is BYPASS, the request goes
\* upstream with its original input (all values, as a string or an array as
\* sent) and without metadata, and the post-phase neither merges nor
\* persists: the client receives the upstream's status and body, and the
\* cache is left as it was.
C26_LookupErrorBypasses ==
    [][LET e == reqs[1]
           n == reqs'[1]
       IN /\ (e.pc = "idle" /\ n.failAt > 0) =>
                /\ n.pc = "proxying" /\ n.cache = "BYPASS" /\ ~n.meta
                /\ n.forwarded = [single |-> ~n.input.wasArray,
                                  values |-> n.input.values]
                /\ n.hits = EmptyMap /\ n.misses = <<>>
                /\ n.status = 0 /\ n.sent = Nil
                /\ embCache' = embCache
          /\ (e.pc = "proxying" /\ e.failAt > 0 /\ n.pc = "done") =>
                /\ n.cache = "BYPASS"
                /\ embCache' = embCache
                /\ ~n.panicked
                /\ n.up # Nil => (n.status = n.up.status /\ n.sent = RawBody(n.up))]_vars

\* The second lookup of a request for a cached and an uncached value failed:
\* the upstream was sent both values, its 200 answer went to the client as
\* it was under the header BYPASS, and the uncached value is still uncached.
C26_Witness ==
    LET e == reqs[1] IN
    /\ e.pc = "done" /\ e.failAt = 2 /\ e.cache = "BYPASS"
    /\ e.input.values = <<"a", "b">> /\ Has(embCache, "a") /\ ~Has(embCache, "b")
    /\ e.forwarded.values = <<"a", "b">>
    /\ e.up # Nil /\ e.up.status = 200 /\ e.up.kind = "list"
    /\ e.status = 200 /\ e.sent = RawBody(e.up)

\* C27: after the post-phase has merged a 200 upstream response, the header
\* X-Embedding-Cache is PARTIAL exactly when the response has entries from
\* the cache and entries from the upstream, MISS exactly when no input was a
\* cache hit, and HIT only when every entry of the response is from the
\* cache.
C27_HeaderTellsWhereEntriesCameFrom ==
    LET e == reqs[1] IN
    (Merged(e) /\ ~e.panicked /\ e.status = 200) =>
        LET entries == 1..Len(e.sent.data)
            cached == {k \in entries : e.sent.data[k].Index \in DOMAIN e.hits}
            fresh == entries \ cached
        IN /\ e.cache \in {"HIT", "PARTIAL", "MISS"}
           /\ e.cache = "PARTIAL" <=> (cached # {} /\ fresh # {})
           /\ e.cache = "MISS" <=> DOMAIN e.hits = {}
           /\ e.cache = "HIT" => (fresh = {} /\ cached # {})
           /\ \A k \in cached :
                 e.sent.data[k].Embedding = e.hits[e.sent.data[k].Index]
           /\ \A k \in fresh :
                 \E j \in 1..Len(e.up.data) :
                    e.sent.data[k].Embedding = e.up.data[j].Embedding

\* A request for a cached and two uncached values was merged as PARTIAL, and
\* the cache held the fresh values afterwards.
C27_Witness ==
    LET e == reqs[1] IN
    /\ Merged(e) /\ e.status = 200 /\ e.cache = "PARTIAL"
    /\ Len(e.input.values) = 3 /\ Len(e.misses) = 2 /\ Len(e.sent.data) = 3

\* C22: after the post-phase has merged a 200 upstream response, every
\* UpsertEmbedding having succeeded, each miss input of the request has a
\* record in the cache holding the embedding the upstream returned for it,
\* and a later request for that value alone is answered from the cache.
C22_EveryMissPersisted ==
    LET e == reqs[1] IN
    (Merged(e) /\ ~e.panicked /\ e.failing = {}) =>
        \A k \in 1..Len(e.misses) :
           LET v == e.misses[k].Value IN
           /\ Has(embCache, v)
           /\ embCache[v] = e.up.data[k].Embedding
           /\ HandleEmbeddingCachePreProxy(
                  embCache, [wasArray |-> FALSE, values |-> <<v>>], 0).handled

-----------------------------------------------------------------------------
(* The usage figure of a merged embeddings response *)

\* largest token count of a record or of an upstream usage member
MaxTokenCount == 3

\* most cached hits of one request
MaxHits == 2

\* most data entries of one upstream response
MaxData == 2

\* A token count (*int, *embeddingUsage): a number, or Nil for a record
\* without one and for an upstream response without a usage member.
Count(k) == [tokens |-> k]

TokenCounts == {Count(k) : k \in 0..MaxTokenCount} \cup {Nil}

RECURSIVE SumTokenCounts(_)
\* The loop over the merged records: every count that is not nil is added.
SumTokenCounts(counts) ==
    IF counts = <<>> THEN 0
    ELSE (IF Head(counts) = Nil THEN 0 ELSE Head(counts).tokens)
         + SumTokenCounts(Tail(counts))

\* handleEmbeddingCachePostResponse, the token arithmetic: hitTokens are the
\* token counts of the hit records, dataLen is len(payload.Data), stored the
\* number of upstream data that got into newRecords, usage the upstream's
\* usage.total_tokens. singleRecordTokens is the upstream total when the
\* response has one datum (read through payload.Usage without a nil check)
\* and 0 otherwise; every new record carries it as its token count.
MergedTotalTokens(hitTokens, dataLen, stored, usage) ==
    LET singleRecordTokens == IF dataLen = 1 THEN usage.tokens ELSE 0
        newTokens == [k \in 1..stored |-> Count(singleRecordTokens)]
        totalTokens == SumTokenCounts(hitTokens \o newTokens)
    IN IF dataLen = 1 /\ usage = Nil THEN [panic |-> TRUE, total |-> 0]
       ELSE [panic |-> FALSE,
             total |-> totalTokens + (IF usage # Nil THEN usage.tokens ELSE 0)]

\* The requests whose responses are merged: their hits, and what the
\* upstream answered.
TokenCases ==
    {[hitTokens |-> h, dataLen |-> d, stored |-> n, usage |-> u] :
        h \in UNION {[1..k -> TokenCounts] : k \in 0..MaxHits},
        d \in 1..MaxData, n \in 0..MaxData, u \in TokenCounts}

NoMerge == [op |-> "none", case |-> Nil, panic |-> FALSE, total |-> 0]

InitTokens ==
    /\ revision = "current"
    /\ redis = EmptyMap
    /\ pgLLM = EmptyMap
    /\ pgEmb = EmptyMap
    /\ ret = NoMerge
    /\ upserted = NoUpsert
    /\ reqs = <<>>
    /\ received = 0
    /\ embCache = EmptyMap
    /\ NoGate

\* The post-phase merges one response.
MergeTokens ==
    /\ ret.op = "none"
    /\ \E c \in TokenCases :
          /\ c.stored <= c.dataLen
          /\ LET m == MergedTotalTokens(c.hitTokens, c.dataLen, c.stored, c.usage)
             IN ret' = [op |-> "merge", case |-> c, panic |-> m.panic, total |-> m.total]
    /\ UNCHANGED <<revision, redis, pgLLM, pgEmb, upserted, reqs, received, embCache,
                   gateVars>>

\* The response has gone to the client.
ReturnTokens ==
    /\ ret.op = "merge"
    /\ ret' = NoMerge
    /\ UNCHANGED <<revision, redis, pgLLM, pgEmb, upserted, reqs, received, embCache,
                   gateVars>>

NextTokens == MergeTokens \/ ReturnTokens

SpecTokens == InitTokens /\ [][NextTokens]_vars

\* C28: the usage.total_tokens of a merged response is the sum of the token
\* counts of the hit records plus the upstream's usage.total_tokens, counted
\* once.
C28_TotalTokensCountsUpstreamOnce ==
    (ret.op = "merge" /\ ~ret.panic /\ ret.case.usage # Nil) =>
        ret.total = SumTokenCounts(ret.case.hitTokens) + ret.case.usage.tokens

-----------------------------------------------------------------------------
(* pkg proxy: the URL route strategies, Handler.getTargetURL and the director *)

\* largest number of requests routed in one behaviour
MaxRouted == 3

\* The URL of a request as the server received it: a path, no host.
IncomingURL(q) == [base |-> "", path |-> q.path]

InitRoute ==
    /\ revision \in {"current", "part_013"}
    /\ redis = EmptyMap
    /\ pgLLM = EmptyMap
    /\ pgEmb = EmptyMap
    /\ ret = NoCall("", "")
    /\ upserted = NoUpsert
    /\ reqs = <<>>
    /\ received = 0
    /\ embCache = EmptyMap
    /\ ipLimiters = EmptyMap
    /\ limiters = EmptyMap
    /\ now = 0
    /\ passes = EmptyMap
    /\ balancers = [model \in DOMAIN ModelRoutes |->
                       NewRoundRobinLoadBalancer(ModelRoutes[model])]

\* Handler.director for one request: the target URL replaces the request's
\* URL when getTargetURL gives one; otherwise the director returns and the
\* request keeps the URL it came with.
Director(q) ==
    /\ Len(reqs) < MaxRouted
    /\ LET t == getTargetURL(revision, balancers, q) IN
       /\ balancers' = t.lbs
       /\ reqs' = Append(reqs, [path |-> q.path, body |-> q.body, ok |-> t.ok,
                                url |-> IF t.ok THEN t.url ELSE IncomingURL(q)])
    /\ UNCHANGED <<revision, redis, pgLLM, pgEmb, ret, upserted, embCache, received,
                   ipLimiters, limiters, now, passes>>

NextRoute == \E q \in RouteRequests : Director(q)

SpecRoute == InitRoute /\ [][NextRoute]_vars

\* The routed requests the ModelSpecifyStrategy decides and whose body
\* names the model m.
Naming(m) ==
    {k \in 1..Len(reqs) :
        /\ ModelSpecifyShouldApply(reqs[k].path)
        /\ reqs[k].body.kind = "json"
        /\ Has(reqs[k].body.members, "model")
        /\ reqs[k].body.members["model"] = m}

\* C29: a request on a ModelSpecifyStrategy path that has no body, or whose
\* JSON body has no model or an empty one, is given the URL made of the
\* TargetMap base of its path and the path, without an error.
C29_MissingModelFallsBack ==
    \A k \in 1..Len(reqs) :
       LET e == reqs[k] IN
       (/\ ModelSpecifyShouldApply(e.path)
        /\ \/ e.body.kind = "empty"
           \/ /\ e.body.kind = "json"
              /\ (Has(e.body.members, "model") => e.body.members["model"] = ""))
       => /\ e.ok
          /\ e.url = [base |-> TargetMap[e.path], path |-> e.path]

\* C30: a request whose body names a model with a balancer goes to the
\* balancer's URLs in turn, the j-th such request (from 0) to urls[j mod n];
\* a request whose body names a model without a balancer goes to the
\* TargetMap base of its path.
C30_ModelRoutedRoundRobin ==
    \A k \in 1..Len(reqs) :
       LET e == reqs[k] IN
       \A m \in {"gpt-4", "other"} :
          k \in Naming(m) =>
             /\ e.ok
             /\ e.url.path = e.path
             /\ IF Has(ModelRoutes, m)
                THEN LET urls == ModelRoutes[m]
                         j == Cardinality({i \in Naming(m) : i < k})
                     IN e.url.base = urls[(j % Len(urls)) + 1]
                ELSE e.url.base = TargetMap[e.path]

\* Two requests for gpt-4 went to a and then to b, and a request for a model
\* without a balancer between them went to the base of its path.
C30_Witness ==
    /\ Len(reqs) = 3
    /\ Naming("gpt-4") = {1, 3}
    /\ Naming("other") = {2}
    /\ reqs[1].url.base = "https://a.example"
    /\ reqs[2].url.base = "https://default.example"
    /\ reqs[3].url.base = "https://b.example"

-----------------------------------------------------------------------------
(* Claims about requests the caches leave alone and about route selection *)

\* The base URLs the configuration names: those of TargetMap and those of
\* the model routes.
ConfiguredUpstreams ==
    {TargetMap[path] : path \in DOMAIN TargetMap} \cup
    UNION {{ModelRoutes[m][k] : k \in 1..Len(ModelRoutes[m])} : m \in DOMAIN ModelRoutes}

\* The body of the request fails the validation of its cache: it is not
\* JSON, its "stream" is not a boolean, or its "input" is of no supported
\* type.
ValidationFailed(e) ==
    \/ e.body # Nil /\ (~e.body.json \/ e.body.stream = "nonbool")
    \/ e.body = Nil /\ e.input # Nil /\ ~Has(e.input, "values")

\* C31: a request on a served path whose body fails cache validation is
\* handed to a configured upstream with its whole body, and what the upstream
\* answers is what the client is sent.
C31_InvalidBodyProxiedUnchanged ==
    \A i \in Connections :
       LET e == reqs[i] IN
       (ValidationFailed(e) /\ Has(TargetMap, e.path)) =>
          /\ e.pc = "awaiting" =>
                /\ e.target \in ConfiguredUpstreams
                /\ e.left = "whole"
          /\ e.pc = "write" =>
                /\ e.pending.status = e.up.status
                /\ e.pending.body = [doc |-> e.up.doc, fmt |-> e.up.fmt, enc |-> e.up.enc]
          /\ (e.pc = "done" /\ e.up # Nil) =>
                /\ e.status = e.up.status
                /\ e.sent = [doc |-> e.up.doc, fmt |-> e.up.fmt, enc |-> e.up.enc]

\* C32: every request has a non-empty request ID, the trimmed X-Request-ID
\* of the client or a generated one, which is the X-Request-ID header of the
\* request from then on, and the response the client is sent carries
\* X-Request-ID with that ID.
C32_ResponseCarriesRequestID ==
    \A i \in Connections :
       LET e == reqs[i] IN
       /\ e.pc # "idle" =>
             /\ e.requestId # ""
             /\ GetRequestID(e) = e.requestId
       /\ (e.pc = "done" /\ e.status # 0) => e.respId = e.requestId

\* The request was handed to the transport with the URL of an upstream.
Dispatched(e) ==
    /\ e.target # ""
    /\ \E k \in 1..Len(e.trace) : e.trace[k] = "dispatch"

\* C33: when the round trip of a dispatched request fails, with a transport
\* error, a cancelled context or an expired deadline, the request ends with
\* status 502 and the body of http.Error.
C33_FailedRoundTripAnswers502 ==
    [][\A i \in Connections :
          (/\ reqs[i].pc = "awaiting"
           /\ Dispatched(reqs[i])
           /\ reqs'[i].err # "")
          => /\ reqs'[i].pc = "done"
             /\ reqs'[i].status = 502
             /\ reqs'[i].sent = BadGateway]_vars

\* The deadline of a dispatched request expired during the round trip, and
\* the request ended with 502.
C33_Witness ==
    \E i \in Connections :
       /\ reqs[i].pc = "done"
       /\ Dispatched(reqs[i])
       /\ reqs[i].err = "context deadline exceeded"
       /\ reqs[i].status = 502

-----------------------------------------------------------------------------
(* internal/storage: cache operations of several goroutines on one key *)

\* number of Storage calls in one behaviour
MaxStoreCalls == 4

\* The goroutines that call Storage, each for one handler.
Workers == {"w1", "w2"}

\* The request and the model all of them use, and its key in each tier.
RaceRequest == "q"

RaceModel == "gpt-4"

RaceKey == <<"llm:", MakeHash(RaceRequest)>>

RaceRow == <<MakeHash(RaceRequest), RaceModel>>

\* A goroutine outside Storage.
Resting == [pc |-> "rest", rec |-> Nil]

InitRace ==
    /\ revision = "current"
    /\ redis = EmptyMap
    /\ pgLLM = EmptyMap
    /\ pgEmb = EmptyMap
    /\ ret = NoCall("", "")
    /\ upserted = NoUpsert
    /\ reqs = [w \in Workers |-> Resting]
    /\ received = 0
    /\ embCache = EmptyMap
    /\ NoGate

\* UpsertLLM, first part: s.DB.UpsertLLM, which puts the hash into the record.
RaceUpsertDB(w) ==
    /\ reqs[w].pc = "rest"
    /\ received < MaxStoreCalls
    /\ received' = received + 1
    /\ \E response \in Responses :
          LET rec == [RequestHash |-> "", Request |-> RaceRequest,
                      ModelName |-> RaceModel, Response |-> response]
              d == PgUpsertLLM(pgLLM, rec, FALSE)
          IN /\ pgLLM' = d.table
             /\ reqs' = [reqs EXCEPT ![w] =
                   [pc |-> "set", rec |-> [rec EXCEPT !.RequestHash = d.hash]]]
    /\ UNCHANGED <<revision, redis, pgEmb, ret, upserted, embCache, gateVars>>

\* UpsertLLM, second part: s.Cache.Set of the record, and the return.
RaceUpsertCache(w) ==
    /\ reqs[w].pc = "set"
    /\ redis' = RedisSet(redis, <<"llm:", reqs[w].rec.RequestHash>>, reqs[w].rec,
                         FALSE).redis
    /\ reqs' = [reqs EXCEPT ![w] = Resting]
    /\ UNCHANGED <<revision, pgLLM, pgEmb, ret, upserted, embCache, received, gateVars>>

\* GetLLM, first part: s.Cache.Get; a record found is returned.
RaceGetCache(w) ==
    /\ reqs[w].pc = "rest"
    /\ received < MaxStoreCalls
    /\ received' = received + 1
    /\ reqs' = [reqs EXCEPT ![w] =
          IF RedisGet(redis, RaceKey, FALSE).found THEN Resting
          ELSE [pc |-> "db", rec |-> Nil]]
    /\ UNCHANGED <<revision, redis, pgLLM, pgEmb, ret, upserted, embCache, gateVars>>

\* GetLLM, second part: s.DB.GetLLM; without a row, nil is returned.
RaceGetDB(w) ==
    /\ reqs[w].pc = "db"
    /\ \E pick \in RowChoices(pgLLM, MakeHash(RaceRequest)) :
          LET p == PgGetLLM(pgLLM, RaceRequest, FALSE, pick) IN
          reqs' = [reqs EXCEPT ![w] =
             IF p.err # NoErr THEN Resting ELSE [pc |-> "backfill", rec |-> p.rec]]
    /\ UNCHANGED <<revision, redis, pgLLM, pgEmb, ret, upserted, embCache, received,
                   gateVars>>

\* GetLLM, third part: s.Cache.Set of the row that was read, and the return.
RaceBackfill(w) ==
    /\ reqs[w].pc = "backfill"
    /\ redis' = RedisSet(redis, RaceKey, reqs[w].rec, FALSE).redis
    /\ reqs' = [reqs EXCEPT ![w] = Resting]
    /\ UNCHANGED <<revision, pgLLM, pgEmb, ret, upserted, embCache, received, gateVars>>

NextRace ==
    \/ \E w \in Workers : RaceUpsertDB(w)
    \/ \E w \in Workers : RaceUpsertCache(w)
    \/ \E w \in Workers : RaceGetCache(w)
    \/ \E w \in Workers : RaceGetDB(w)
    \/ \E w \in Workers : RaceBackfill(w)
    \/ RedisExpire

SpecRace == InitRace /\ [][NextRace]_vars

\* C34: when no Storage call is in progress (none has failed), the response
\* tier-1 holds for the key is the one tier-2 holds for it.
C34_TiersAgreeWhenQuiescent ==
    (/\ \A w \in Workers : reqs[w].pc = "rest"
     /\ Has(redis, RaceKey)
     /\ Has(pgLLM, RaceRow))
    => JSONEquivalent(redis[RaceKey].Response, pgLLM[RaceRow].Response)

-----------------------------------------------------------------------------
(* Claims about the end of a request *)

\* C35: every request the handler has taken up is answered in the end: its
\* goroutine reaches the end of ServeHTTP having written one response, with
\* a status, to the client.
C35_EveryRequestAnswered ==
    \A i \in Connections :
       (reqs[i].pc \notin {"idle", "done"})
          ~> (reqs[i].pc = "done" /\ reqs[i].status # 0)

\* C36: a request without X-Real-IP and X-Forwarded-For is checked against
\* the bucket of its peer's IP address: the key of its limiter is that
\* address, so two such requests from one address have the same key,
\* whatever their source ports.
C36_BucketKeyedOnPeerAddress ==
    \A i, j \in Connections :
       LET a == reqs[i]
           b == reqs[j]
       IN (/\ a.pc # "idle" /\ b.pc # "idle"
           /\ a.peer.xRealIP = "" /\ a.peer.xForwardedFor = ""
           /\ b.peer.xRealIP = "" /\ b.peer.xForwardedFor = ""
           /\ RemoteIP(a.peer.remoteAddr) = RemoteIP(b.peer.remoteAddr))
          => /\ a.ip = RemoteIP(a.peer.remoteAddr)
             /\ a.ip = b.ip

\* The director has just handed request i to the transport for model m: the
\* request is on a path of the ModelSpecifyStrategy and its body names m.
DispatchedFor(i, m) ==
    /\ reqs[i].pc = "director"
    /\ reqs'[i].pc = "awaiting"
    /\ Dispatched(reqs'[i])
    /\ ModelSpecifyShouldApply(reqs[i].path)
    /\ extractModelFromRequest(RouteBody(reqs[i])).model = m

\* C37: the counter of a model's balancer goes up by one in the step that
\* dispatches a request for that model, and in no other step: not when a
\* request is answered from the cache, with 404 or with 429, nor when a
\* response arrives.
C37_CounterAdvancesOncePerDispatch ==
    [][\A m \in DOMAIN ModelRoutes :
          /\ (\E i \in Connections : DispatchedFor(i, m))
                => balancers'[m].current = balancers[m].current + 1
          /\ ~(\E i \in Connections : DispatchedFor(i, m))
                => balancers'[m] = balancers[m]]_vars

\* One request for gpt-4 was dispatched and has been answered; a second was
\* answered from the cache, a third with 404: the counter is 1.
C37_Witness ==
    /\ received = 3
    /\ balancers["gpt-4"].current = 1
    /\ \E i, j \in Connections :
          /\ reqs[i].pc = "done" /\ reqs[i].cache = "HIT"
          /\ reqs[i].path = "/chat/completions"
          /\ reqs[j].pc = "done" /\ reqs[j].status = 404

-----------------------------------------------------------------------------
(* Claims about the keys of the embedding cache *)

\* C38: the record an embedding lookup returns was cached for the input text
\* and the model the lookup names, since different (input, model) pairs have
\* different key strings.
C38_RecordOnlyForItsOwnKey ==
    (ret.op = "GetEmbedding" /\ ret.rec # Nil) =>
        /\ ret.rec.InputText = ret.request
        /\ ret.rec.ModelName = ret.model

-----------------------------------------------------------------------------
(* Claims about failures of the route and of the post-phase *)

\* Route selection failed for the request: getTargetURL returned no URL.
RouteFailed(e) == \E k \in 1..Len(e.trace) : e.trace[k] = "routeFailed"

\* C39: a request on a path of TargetMap whose route selection failed is
\* sent to no upstream, whatever its own URL names, and the client receives
\* an error status.
C39_FailedRouteNotSentUpstream ==
    \A i \in Connections :
       LET e == reqs[i] IN
       (Has(TargetMap, e.path) /\ RouteFailed(e)) =>
          /\ e.up = Nil
          /\ e.pc = "done" => e.status >= 400

\* C40: when the upstream answers a cacheable embeddings request 200 with
\* exactly one datum and no usage member, the post-phase does not fail: the
\* client is sent a 200 embedding list, and a datum for a missed input is in
\* the cache afterwards.
C40_SingleDatumWithoutUsageIsMerged ==
    LET e == reqs[1] IN
    (/\ e.pc = "done" /\ e.meta /\ e.up # Nil
     /\ e.up.status = 200 /\ e.up.kind = "list"
     /\ Len(e.up.data) = 1 /\ ~e.up.usage) =>
        /\ ~e.panicked
        /\ e.status = 200
        /\ e.sent # Nil /\ e.sent.kind = "list"

====
